---------------------------- MODULE Spec2Model ----------------------------
(***************************************************************************)
(* Model of the geo-analysis-service: the Analysis Client (ClaudeService), *)
(* the Report Store (FileService), the orchestrator (BrandService) and the *)
(* bulk route.  Strings are sequences of one-character strings (or of      *)
(* words where noted), so that replace / includes / substring are computed *)
(* as the code computes them.                                              *)
(***************************************************************************)
EXTENDS Integers, Sequences, FiniteSets, TLC

VARIABLES
  \* ---- Analysis Client: one call of ClaudeService.analyzeBrand* ----
  cMethod,               \* which method runs: "analyzeBrandComprehensive" | "analyzeBrand"
  cPc,                   \* "idle" | "primary" | "continuation" | "returned" | "thrown"
  response,              \* outcome of the primary messages.create
  continuationResponse,  \* outcome of the follow-up messages.create
  analysis,              \* let analysis
  totalInputTokens,      \* let totalInputTokens
  totalOutputTokens,     \* let totalOutputTokens
  totalTokens,           \* let totalTokens
  created,               \* number of messages.create requests issued by this call
  cError,                \* the Error thrown to the caller, when cPc = "thrown"
  \* ---- validation + FileService.sanitizeBrandName on one request body ----
  sanPc,                 \* "received" | "rejected" | "validated" | "sanitized" | "resanitized"
  rawBrandName,          \* req.body.brandName as sent
  brandName,             \* req.body.brandName after validate()
  sanitized,             \* sanitizeBrandName(brandName)
  resanitized,           \* sanitizeBrandName(sanitized)
  \* ---- one report written by createFileContent + writeFile, then read ----
  rtPc,                  \* "idle" | "start" | "saved" | "read"
  rtArgs,                \* the arguments of createFileContent and the clock
  rtFile,                \* the content of the file at the returned path
  rtContent,             \* what readFile returned
  \* ---- the report tree under reportsDir, and the clock ----
  folders,               \* names of the directories directly under reportsDir
  files,                 \* the files: [brandFolder, fileName, created, savedFor]
  clock,                 \* the clock, in seconds
  \* ---- BrandService.getAllReports ----
  listFilters,           \* the filters of the last getAllReports call
  listed,                \* what the last getAllReports call returned
  \* ---- FileService.deleteFile ----
  delResult,             \* the last deleteFile call: its arguments and its outcome
  \* ---- one HTTP request to an analysis route, and the orchestrator ----
  anPc,                  \* "idle" | "handling" | "responded"
  request,               \* the request: its route and its body
  idx,                   \* how many brands of the request have been started
  phase,                 \* of the brand started last: "none" | "upstream" | "saving" | "done"
  inFlight,              \* the brands whose analysis has started and not finished
  callLog,               \* the brands in the order their upstream call was started
  uuids,                 \* number of request identifiers generated so far
  raised,                \* the error the analysis client raised for this brand
  thrown,                \* the error the orchestrator threw to its caller
  treeAtStart,           \* <<folders, files>> when this brand's analysis began
  results,               \* const results = []
  errors,                \* const errors = []
  httpResponse,          \* what was sent back
  \* ---- one request up to the global error handler ----
  ehPc,                  \* "idle" | "primary" | "caught" | "saving" | "serving" | "thrown" | "answered"
  ehRequest,             \* the request: its route, and the file it names
  providerError,         \* the error the provider SDK rejected messages.create with
  attempts,              \* number of messages.create calls made for the request
  resStatusCode,         \* res.statusCode when the error handler is entered
  ehErr,                 \* the error passed to next(err)
  ehResponse,            \* the response sent: its status and its body's error
  \* ---- one request through the middleware of /api/analysis ----
  gatePc,                \* "idle" | "arrived" | "authenticated" | "validated" | "served" | "rejected"
  gateRequest,           \* the request: its path, its two credential headers and its body
  gateResponse,          \* what a middleware or a read-only route sent back
  \* ---- createComprehensiveBrandAnalysisPrompt ----
  prPc,                  \* "idle" | "called" | "built" | "rebuilt"
  prFormData,            \* the form data the prompt is built from
  prompt,                \* the prompt the first call returned
  promptAgain,           \* the prompt a second call with the same form data returned
  \* ---- entries of the report root the service did not write ----
  others,                \* files and directories put into the tree from outside: parent path, name, kind, birth time
  \* ---- GET and DELETE /files/:fileName over paths ----
  dirOrder,              \* the order in which fs.readdir gives the entries of reportsDir
  rdPc,                  \* of getReport: "idle" | "called" | "read" | "returned" | "thrown"
  rdArgs,                \* fileName and brandFolder of the request
  rdContent,             \* the file whose content readFile returned
  rdInfo,                \* const fileInfo of getReport
  rdError,               \* the error getReport threw
  fsLog,                 \* the fs.readFile and fs.unlink calls that went through, with their paths
  \* ---- FileService.getStatistics ----
  sizes,                 \* stats.size of the files, by path
  stats,                 \* what getStatistics returned, when the last request was one for it
  \* ---- two saves side by side ----
  savers,                \* each save's position (pc), brand name, request id, file name written and error
  contents,              \* which save's text the file of a folder and name holds
  \* ---- a listing taken step by step ----
  scan                   \* the position of a getFilesList call: items left, folder being read, entries found, error

clientVars == <<cMethod, cPc, response, continuationResponse, analysis,
                totalInputTokens, totalOutputTokens, totalTokens, created, cError>>

sanVars == <<sanPc, rawBrandName, brandName, sanitized, resanitized>>

rtVars == <<rtPc, rtArgs, rtFile, rtContent>>
treeVars == <<folders, files, clock>>
listVars == <<listFilters, listed>>
delVars == <<delResult>>
anVars == <<anPc, request, idx, phase, inFlight, callLog, uuids, raised, thrown,
            treeAtStart, results, errors, httpResponse>>

ehVars == <<ehPc, ehRequest, providerError, attempts, resStatusCode, ehErr, ehResponse>>

gateVars == <<gatePc, gateRequest, gateResponse>>

promptVars == <<prPc, prFormData, prompt, promptAgain>>

walkVars == <<others>>

readVars == <<dirOrder, rdPc, rdArgs, rdContent, rdInfo, rdError, fsLog>>

statVars == <<sizes, stats>>

saveVars == <<savers, contents>>

scanVars == <<scan>>

vars == <<clientVars, sanVars, rtVars, treeVars, listVars, delVars, anVars,
          ehVars,
          gateVars,
          promptVars,
          walkVars,
          readVars,
          statVars,
          saveVars,
          scanVars>>

\* the components declared after the report tree's
restVars == <<readVars, statVars, saveVars, scanVars>>
lateVars == <<saveVars, scanVars>>

\* what the actions of one component leave alone
notClient == <<scanVars, saveVars, statVars, readVars, walkVars, promptVars, gateVars, ehVars, delVars, sanVars, rtVars, treeVars, listVars, anVars>>
notSan == <<scanVars, saveVars, statVars, readVars, walkVars, promptVars, gateVars, ehVars, delVars, clientVars, rtVars, treeVars, listVars, anVars>>
notRt == <<scanVars, saveVars, statVars, readVars, walkVars, promptVars, gateVars, ehVars, delVars, clientVars, sanVars, treeVars, listVars, anVars>>
notStore == <<scanVars, saveVars, statVars, readVars, walkVars, promptVars, gateVars, ehVars, clientVars, sanVars, rtVars, anVars>>
notErrors == <<scanVars, saveVars, statVars, readVars, walkVars, promptVars, gateVars, clientVars, sanVars, rtVars, treeVars, listVars, delVars, anVars>>
notGate == <<scanVars, saveVars, statVars, readVars, walkVars, promptVars, clientVars, sanVars, rtVars, treeVars, listVars, delVars, anVars, ehVars>>
notPrompt == <<scanVars, saveVars, statVars, readVars, walkVars, clientVars, sanVars, rtVars, treeVars, listVars, delVars, anVars, ehVars, gateVars>>
notAnalyze == <<scanVars, saveVars, statVars, readVars, walkVars, promptVars, gateVars, ehVars, clientVars, sanVars, rtVars, listVars, delVars>>

-----------------------------------------------------------------------------
(* Generic string helpers *)

Min(a, b) == IF a < b THEN a ELSE b

SeqsUpTo(S, n) == UNION {[1..k -> S] : k \in 0..n}

\* String.prototype.includes
Includes(s, sub) ==
  \E i \in 0..(Len(s) - Len(sub)) : SubSeq(s, i + 1, i + Len(sub)) = sub

IsPrefix(p, s) == Len(p) <= Len(s) /\ SubSeq(s, 1, Len(p)) = p

IsSuffix(p, s) == Len(p) <= Len(s) /\ SubSeq(s, Len(s) - Len(p) + 1, Len(s)) = p

-----------------------------------------------------------------------------
(* Analysis Client.  Texts are sequences of words. *)

MaxPrimaryText == 2      \* longest primary response text, in words
MaxContinuationText == 1 \* longest follow-up response text, in words
MaxTokenCount == 2       \* largest token count an upstream usage block reports

ClientMethods == {"analyzeBrandComprehensive", "analyzeBrand"}

\* 'EXECUTIVE CONCLUSION' / '## Implementation Roadmap'
ClosingMarker(method) ==
  IF method = "analyzeBrandComprehensive"
  THEN <<"EXECUTIVE", "CONCLUSION">>
  ELSE <<"## Implementation", "Roadmap">>

\* the words a response of the method is made of: a filler word and the
\* words of the method's closing marker
Words(method) ==
  {"word"} \cup {ClosingMarker(method)[i] : i \in 1..Len(ClosingMarker(method))}

StopReasons == {"end_turn", "max_tokens", "stop_sequence"}

\* provider HTTP statuses of a failed request; 0 = an error without a status
Statuses == {429, 401, 400, 500, 503, 0}

Message(stop, text, inTok, outTok) ==
  [kind |-> "message", status |-> 0, stop_reason |-> stop, text |-> text,
   input_tokens |-> inTok, output_tokens |-> outTok]

ApiError(status) ==
  [kind |-> "error", status |-> status, stop_reason |-> "", text |-> <<>>,
   input_tokens |-> 0, output_tokens |-> 0]

\* a message whose content array is empty: content[0].text throws a TypeError
EmptyContent ==
  [kind |-> "emptyContent", status |-> 0, stop_reason |-> "end_turn", text |-> <<>>,
   input_tokens |-> 0, output_tokens |-> 0]

NoResponse ==
  [kind |-> "none", status |-> 0, stop_reason |-> "", text |-> <<>>,
   input_tokens |-> 0, output_tokens |-> 0]

UpstreamOutcomes(method, maxText) ==
  {Message(s, t, i, o) : s \in StopReasons, t \in SeqsUpTo(Words(method), maxText),
                         i \in 1..MaxTokenCount, o \in 1..MaxTokenCount}
  \cup {ApiError(st) : st \in Statuses}
  \cup {EmptyContent}

\* An Error: its message (a sequence of words), its status and its code;
\* status 0 and code "" stand for a property the Error does not have
NoError == [message |-> <<>>, status |-> 0, code |-> ""]

\* the message of the provider's error, as the provider SDK words it
ProviderMessage(status) ==
  CASE status = 429 -> <<"429 This request would exceed your ", "rate limit">>
    [] status = 401 -> <<"401 invalid x-api-key">>
    [] status = 400 -> <<"400 prompt is too long">>
    [] status = 500 -> <<"500 Internal server error">>
    [] status = 503 -> <<"503 Overloaded">>
    [] OTHER        -> <<"Connection error.">>

\* error.headers?.['retry-after'] || 60
DefaultRetryAfter == 60

\* catch (error) of analyzeBrandComprehensive / the older analyzeBrand: a new
\* Error is thrown, which carries a message, no status and no code
MapClientError(status, providerMessage) ==
  [message |->
     CASE status = 429 ->
            <<"Claude", " ", "API", " ", "rate limit", " exceeded. Retry after ",
              ToString(DefaultRetryAfter), " seconds.">>
       [] status = 401 ->
            <<"Claude", " ", "API", " ", "key",
              " is invalid or expired. Please check your ", "API", " ", "key", ".">>
       [] status = 400 ->
            <<"Claude", " ", "API", " ", "bad request: ">> \o providerMessage
            \o <<". Check if your request exceeds input token limits.">>
       [] status = 500 ->
            <<"Claude", " ", "API", " ", "server error. Please try again later.">>
       [] OTHER ->
            <<"Claude", " ", "API", " ", "error: ">> \o providerMessage,
   status |-> 0,
   code |-> ""]

\* wasIncomplete without the closing-marker test
wasIncompleteIgnoringMarker(method, r) ==
  r.stop_reason = "max_tokens" /\ Len(r.text) > 0

\* const wasIncomplete = stop_reason === 'max_tokens' && analysis.length > 0
\*                       && !analysis.includes(marker)
wasIncomplete(method, r) ==
  /\ r.stop_reason = "max_tokens"
  /\ Len(r.text) > 0
  /\ ~Includes(r.text, ClosingMarker(method))

\* the follow-up text without the primary text in front of it
AppendContinuationDropsPrimary(method, text, more) == more

\* the text after a successful follow-up
AppendContinuation(method, text, more) ==
  IF method = "analyzeBrandComprehensive"
  THEN text \o <<"\n\n">> \o more     \* analysis + '\n\n' + continuation text
  ELSE more                           \* analysis = continuation text

\* a token total after a successful follow-up
AddContinuationTokens(method, total, more) ==
  IF method = "analyzeBrandComprehensive"
  THEN total + more                   \* total += usage
  ELSE more                           \* total = usage

ClientInit ==
  /\ cMethod = "analyzeBrandComprehensive"
  /\ cPc = "idle"
  /\ response = NoResponse
  /\ continuationResponse = NoResponse
  /\ analysis = <<>>
  /\ totalInputTokens = 0
  /\ totalOutputTokens = 0
  /\ totalTokens = 0
  /\ created = 0
  /\ cError = NoError

\* the method is entered and the primary messages.create is awaited
ClientCall(method) ==
  /\ cPc = "idle"
  /\ cMethod' = method
  /\ cPc' = "primary"
  /\ created' = created + 1
  /\ UNCHANGED <<response, continuationResponse, analysis, totalInputTokens,
                 totalOutputTokens, totalTokens, cError>>
  /\ UNCHANGED notClient

\* the primary request rejects, or its content is empty: the outer catch
PrimaryFails ==
  /\ cPc = "primary"
  /\ \E r \in UpstreamOutcomes(cMethod, MaxPrimaryText) :
       /\ r.kind \in {"error", "emptyContent"}
       /\ response' = r
       /\ cError' = MapClientError(r.status, ProviderMessage(r.status))
  /\ cPc' = "thrown"
  /\ UNCHANGED <<cMethod, continuationResponse, analysis, totalInputTokens,
                 totalOutputTokens, totalTokens, created>>
  /\ UNCHANGED notClient

\* the primary request resolves: the totals are taken, wasIncomplete is
\* evaluated, and either the follow-up is awaited or the result is returned
PrimaryReturns ==
  /\ cPc = "primary"
  /\ \E r \in UpstreamOutcomes(cMethod, MaxPrimaryText) :
       /\ r.kind = "message"
       /\ response' = r
       /\ analysis' = r.text
       /\ totalInputTokens' = r.input_tokens
       /\ totalOutputTokens' = r.output_tokens
       /\ totalTokens' = r.input_tokens + r.output_tokens
       /\ IF wasIncomplete(cMethod, r)
          THEN cPc' = "continuation" /\ created' = created + 1
          ELSE cPc' = "returned" /\ created' = created
  /\ UNCHANGED <<cMethod, continuationResponse, cError>>
  /\ UNCHANGED notClient

\* the follow-up resolves: its text and usage are folded into the result
ContinuationReturns ==
  /\ cPc = "continuation"
  /\ \E r \in UpstreamOutcomes(cMethod, MaxContinuationText) :
       /\ r.kind = "message"
       /\ continuationResponse' = r
       /\ analysis' = AppendContinuation(cMethod, analysis, r.text)
       /\ totalInputTokens' =
            AddContinuationTokens(cMethod, totalInputTokens, r.input_tokens)
       /\ totalOutputTokens' =
            AddContinuationTokens(cMethod, totalOutputTokens, r.output_tokens)
       /\ totalTokens' =
            AddContinuationTokens(cMethod, totalInputTokens, r.input_tokens)
            + AddContinuationTokens(cMethod, totalOutputTokens, r.output_tokens)
  /\ cPc' = "returned"
  /\ UNCHANGED <<cMethod, response, created, cError>>
  /\ UNCHANGED notClient

\* the follow-up's failure reaching the outer catch instead of being swallowed
ContinuationFailsSurfaced ==
  /\ cPc = "continuation"
  /\ \E r \in UpstreamOutcomes(cMethod, MaxContinuationText) :
       /\ r.kind \in {"error", "emptyContent"}
       /\ continuationResponse' = r
       /\ cError' = MapClientError(r.status, ProviderMessage(r.status))
  /\ cPc' = "thrown"
  /\ UNCHANGED <<cMethod, response, analysis, totalInputTokens, totalOutputTokens,
                 totalTokens, created>>
  /\ UNCHANGED notClient

\* the follow-up rejects (or has no content): catch (continuationError) logs
\* and continues with the original response
ContinuationFails ==
  /\ cPc = "continuation"
  /\ \E r \in UpstreamOutcomes(cMethod, MaxContinuationText) :
       /\ r.kind \in {"error", "emptyContent"}
       /\ continuationResponse' = r
  /\ cPc' = "returned"
  /\ UNCHANGED <<cMethod, response, analysis, totalInputTokens, totalOutputTokens,
                 totalTokens, created, cError>>
  /\ UNCHANGED notClient

ClientNext ==
  \/ \E m \in ClientMethods : ClientCall(m)
  \/ PrimaryFails
  \/ PrimaryReturns
  \/ ContinuationReturns
  \/ ContinuationFails


-----------------------------------------------------------------------------
(* Characters.  A string is a sequence of one-character strings. *)

UpperLetters == <<"A","B","C","D","E","F","G","H","I","J","K","L","M",
                  "N","O","P","Q","R","S","T","U","V","W","X","Y","Z">>
LowerLetters == <<"a","b","c","d","e","f","g","h","i","j","k","l","m",
                  "n","o","p","q","r","s","t","u","v","w","x","y","z">>
Digits == {"0","1","2","3","4","5","6","7","8","9"}

Range(f) == {f[i] : i \in DOMAIN f}

UpperSet == Range(UpperLetters)
LowerSet == Range(LowerLetters)

\* the lower-case letter of each upper-case letter
LowerOf == [c \in UpperSet |->
              LowerLetters[CHOOSE i \in DOMAIN UpperLetters : UpperLetters[i] = c]]

IsUpper(c) == c \in UpperSet
IsLower(c) == c \in LowerSet
IsDigit(c) == c \in Digits
IsAlnum(c) == IsUpper(c) \/ IsLower(c) \/ IsDigit(c)

\* \s
IsSpace(c) == c \in {" ", "\t", "\n", "\r"}

\* String.prototype.toLowerCase, one character
LowerChar(c) == IF IsUpper(c) THEN LowerOf[c] ELSE c

\* String.prototype.toLowerCase
ToLowerCase(s) == [i \in 1..Len(s) |-> LowerChar(s[i])]

\* String.prototype.substring(0, n)
Substring0(s, n) == SubSeq(s, 1, Min(Len(s), n))

\* String.prototype.repeat
Repeat(c, n) == [i \in 1..n |-> c]

\* the string without its leading / trailing white space
DropLeadingSpace(s) ==
  IF \A i \in 1..Len(s) : IsSpace(s[i]) THEN <<>>
  ELSE SubSeq(s, CHOOSE i \in 1..Len(s) :
                   ~IsSpace(s[i]) /\ \A j \in 1..(i - 1) : IsSpace(s[j]), Len(s))

DropTrailingSpace(s) ==
  IF \A i \in 1..Len(s) : IsSpace(s[i]) THEN <<>>
  ELSE SubSeq(s, 1, CHOOSE i \in 1..Len(s) :
                   ~IsSpace(s[i]) /\ \A j \in (i + 1)..Len(s) : IsSpace(s[j]))

\* String.prototype.trim
Trim(s) == DropTrailingSpace(DropLeadingSpace(s))

-----------------------------------------------------------------------------
(* Validation of brandName and FileService.sanitizeBrandName *)

MaxBrandNameLength == 100   \* Joi .max(100)
MaxFolderNameLength == 50   \* .substring(0, 50)
MaxAffix == 1               \* longest free prefix / suffix of a generated brand name

\* [^a-zA-Z0-9\s-_] : what the first replace keeps
IsKeptBySanitize(c) == IsAlnum(c) \/ IsSpace(c) \/ c = "-" \/ c = "_"

\* .replace(/[^a-zA-Z0-9\s-_]/g, '')
RemoveSpecialCharacters(s) == SelectSeq(s, IsKeptBySanitize)

\* a removed character
Removed == ""
IsNotRemoved(c) == c # Removed

\* .replace(/\s+/g, '_') : the first character of a run of white space becomes
\* '_', the rest of the run goes
ReplaceSpaceRuns(s) ==
  SelectSeq([i \in 1..Len(s) |->
               IF ~IsSpace(s[i]) THEN s[i]
               ELSE IF i = 1 \/ ~IsSpace(s[i - 1]) THEN "_" ELSE Removed],
            IsNotRemoved)

\* sanitizeBrandName without .toLowerCase()
sanitizeBrandNameKeepsCase(name) ==
  Substring0(ReplaceSpaceRuns(RemoveSpecialCharacters(name)), MaxFolderNameLength)

\* FileService.sanitizeBrandName
sanitizeBrandName(name) ==
  Substring0(ToLowerCase(ReplaceSpaceRuns(RemoveSpecialCharacters(name))),
             MaxFolderNameLength)

\* brandName: Joi.string().trim().min(1).max(100).required(); validate()
\* replaces req.body by the converted (trimmed) value
BrandNameAccepted(raw) ==
  Len(Trim(raw)) >= 1 /\ Len(Trim(raw)) <= MaxBrandNameLength

BrandNameChars == {"A", "b", "7", " ", "-", "_", "!"}
PadChars == {"A", " ", "!"}
PadLengths == {0, MaxFolderNameLength - 1, MaxBrandNameLength - 2}

\* request bodies: a short free prefix, a run of one character, a short free
\* suffix; lengths reach past both limits
RawBrandNames ==
  {h \o Repeat(c, n) \o t :
     h \in SeqsUpTo(BrandNameChars, MaxAffix), c \in PadChars, n \in PadLengths,
     t \in SeqsUpTo(BrandNameChars, MaxAffix)}

SanIdle ==
  /\ sanPc = "idle"
  /\ rawBrandName = <<>>
  /\ brandName = <<>>
  /\ sanitized = <<>>
  /\ resanitized = <<>>

SanInit ==
  /\ sanPc = "received"
  /\ rawBrandName \in RawBrandNames
  /\ brandName = <<>>
  /\ sanitized = <<>>
  /\ resanitized = <<>>

\* validate(schema): the body is rejected with 400, or replaced by its
\* converted value
ValidateBrandName ==
  /\ sanPc = "received"
  /\ IF BrandNameAccepted(rawBrandName)
     THEN sanPc' = "validated" /\ brandName' = Trim(rawBrandName)
     ELSE sanPc' = "rejected" /\ brandName' = brandName
  /\ UNCHANGED <<rawBrandName, sanitized, resanitized>>
  /\ UNCHANGED notSan

\* createBrandFolder: const sanitizedBrandName = this.sanitizeBrandName(brandName)
SanitizeBrandName ==
  /\ sanPc = "validated"
  /\ sanitized' = sanitizeBrandName(brandName)
  /\ sanPc' = "sanitized"
  /\ UNCHANGED <<rawBrandName, brandName, resanitized>>
  /\ UNCHANGED notSan

\* the sanitized token used as a brand name again
SanitizeAgain ==
  /\ sanPc = "sanitized"
  /\ resanitized' = sanitizeBrandName(sanitized)
  /\ sanPc' = "resanitized"
  /\ UNCHANGED <<rawBrandName, brandName, sanitized>>
  /\ UNCHANGED notSan

SanNext == ValidateBrandName \/ SanitizeBrandName \/ SanitizeAgain

-----------------------------------------------------------------------------
(* FileService.cleanAnalysisText: the regular-expression replacements, each
   computed by a left-to-right scan as String.prototype.replace does with a
   global pattern.  The phrases the first three patterns look for are single
   elements of the sequence. *)

SpaceChars == {" ", "\t", "\n", "\r"}
BlankChars == {" ", "\t"}

UltraComprehensive == "ULTRA-COMPREHENSIVE"
\* 'Premium $50,000' and 'Premium $50,000 Consulting Deliverable'
Premium50000 == <<"Premium", " ", "$50,000">>
PremiumDeliverable == Premium50000 \o <<" ", "Consulting Deliverable">>
\* the replacement of a list bullet, without its trailing blank
Bullet == "<bullet>"

\* the length of the longest run of characters of cls that starts at s[i]
RunLen(s, i, cls) ==
  LET stops == {k \in i..(Len(s) + 1) :
                  /\ k = Len(s) + 1 \/ s[k] \notin cls
                  /\ \A j \in i..(k - 1) : s[j] \in cls}
  IN IF i > Len(s) THEN 0 ELSE (CHOOSE k \in stops : TRUE) - i

OccursAt(s, i, pat) ==
  i + Len(pat) - 1 <= Len(s) /\ SubSeq(s, i, i + Len(pat) - 1) = pat

\* /c{n,}/g (exact = FALSE) or /c{n}/g (exact = TRUE) replaced by repl
RECURSIVE ReplaceRunsFrom(_, _, _, _, _, _)
ReplaceRunsFrom(s, i, cls, n, exact, repl) ==
  IF i > Len(s) THEN <<>>
  ELSE IF RunLen(s, i, cls) >= n
       THEN repl \o ReplaceRunsFrom(s, i + (IF exact THEN n ELSE RunLen(s, i, cls)),
                                    cls, n, exact, repl)
       ELSE <<s[i]>> \o ReplaceRunsFrom(s, i + 1, cls, n, exact, repl)

ReplaceRuns(s, cls, n, exact, repl) == ReplaceRunsFrom(s, 1, cls, n, exact, repl)

\* /start[\s\S]*?end/g, or /start[\s\S]*?end\s*/g when eatSpace, replaced by ''
RECURSIVE RemoveSpansFrom(_, _, _, _, _)
RemoveSpansFrom(s, i, start, end, eatSpace) ==
  IF i > Len(s) THEN <<>>
  ELSE IF /\ OccursAt(s, i, start)
          /\ \E j \in (i + Len(start))..Len(s) : OccursAt(s, j, end)
       THEN LET ends == {j \in (i + Len(start))..Len(s) : OccursAt(s, j, end)}
                j == CHOOSE x \in ends : \A y \in ends : x <= y
                k == j + Len(end)
            IN RemoveSpansFrom(s, IF eatSpace THEN k + RunLen(s, k, SpaceChars) ELSE k,
                               start, end, eatSpace)
       ELSE <<s[i]>> \o RemoveSpansFrom(s, i + 1, start, end, eatSpace)

RemoveSpans(s, start, end, eatSpace) == RemoveSpansFrom(s, 1, start, end, eatSpace)

\* ^ under the m flag
IsLineStart(s, i) == i = 1 \/ s[i - 1] = "\n"

\* $ under the m flag, for the position after s[k]
IsLineEnd(s, k) == k = Len(s) \/ s[k + 1] = "\n"

\* the length of the match of /^\s*[\*\-\+]\s+/m at s[i], 0 when there is none
BulletMatchLen(s, i) ==
  LET a == RunLen(s, i, SpaceChars)
      j == i + a
  IN IF /\ IsLineStart(s, i)
        /\ j <= Len(s)
        /\ s[j] \in {"*", "-", "+"}
        /\ RunLen(s, j + 1, SpaceChars) >= 1
     THEN a + 1 + RunLen(s, j + 1, SpaceChars)
     ELSE 0

\* the length of the match of /^\s*\d+\.\s+/m at s[i], 0 when there is none
NumberedMatchLen(s, i) ==
  LET a == RunLen(s, i, SpaceChars)
      d == RunLen(s, i + a, Digits)
      j == i + a + d
  IN IF /\ IsLineStart(s, i)
        /\ d >= 1
        /\ j <= Len(s)
        /\ s[j] = "."
        /\ RunLen(s, j + 1, SpaceChars) >= 1
     THEN a + d + 1 + RunLen(s, j + 1, SpaceChars)
     ELSE 0

\* the length of the match of /^\s+|\s+$/m at s[i], 0 when there is none:
\* white space at a line start, else the longest white space that ends a line
LineTrimMatchLen(s, i) ==
  LET r == RunLen(s, i, SpaceChars)
      ends == {k \in i..(i + r - 1) : IsLineEnd(s, k)}
  IN IF r = 0 THEN 0
     ELSE IF IsLineStart(s, i) THEN r
     ELSE IF ends # {} THEN (CHOOSE k \in ends : \A y \in ends : y <= k) - i + 1
     ELSE 0

LinePatternMatchLen(kind, s, i) ==
  CASE kind = "bullet"   -> BulletMatchLen(s, i)
    [] kind = "numbered" -> NumberedMatchLen(s, i)
    [] kind = "trim"     -> LineTrimMatchLen(s, i)

RECURSIVE ReplaceLinePatternFrom(_, _, _, _)
ReplaceLinePatternFrom(kind, s, i, repl) ==
  IF i > Len(s) THEN <<>>
  ELSE IF LinePatternMatchLen(kind, s, i) > 0
       THEN repl \o ReplaceLinePatternFrom(kind, s, i + LinePatternMatchLen(kind, s, i), repl)
       ELSE <<s[i]>> \o ReplaceLinePatternFrom(kind, s, i + 1, repl)

ReplaceLinePattern(kind, s, repl) == ReplaceLinePatternFrom(kind, s, 1, repl)

\* FileService.cleanAnalysisText
cleanAnalysisText(text) ==
  LET t1  == RemoveSpans(text, <<"#", " ", UltraComprehensive>>, <<"-", "-", "-">>, TRUE)
      t2  == RemoveSpans(t1, <<"#", "#", " ">> \o Premium50000, <<"-", "-", "-">>, TRUE)
      t3  == RemoveSpans(t2, PremiumDeliverable, <<"\n">>, FALSE)
      t4  == ReplaceRuns(t3, {"#"}, 4, FALSE, <<>>)         \* /#{4,}/g -> ''
      t5  == ReplaceRuns(t4, {"#"}, 3, TRUE, <<>>)          \* /#{3}/g  -> ''
      t6  == ReplaceRuns(t5, {"#"}, 2, TRUE, <<"\n">>)      \* /#{2}/g  -> '\n'
      t7  == ReplaceRuns(t6, {"#"}, 1, TRUE, <<"\n">>)      \* /#{1}/g  -> '\n'
      t8  == ReplaceRuns(t7, {"*"}, 3, FALSE, <<>>)         \* /\*{3,}/g -> ''
      t9  == ReplaceRuns(t8, {"*"}, 2, TRUE, <<>>)          \* /\*{2}/g  -> ''
      t10 == ReplaceRuns(t9, {"*"}, 1, TRUE, <<>>)          \* /\*{1}/g  -> ''
      t11 == ReplaceRuns(t10, {"-"}, 3, FALSE, <<>>)        \* /-{3,}/g  -> ''
      t12 == ReplaceRuns(t11, {"="}, 3, FALSE, <<>>)        \* /={3,}/g  -> ''
      t13 == ReplaceRuns(t12, {"\n"}, 4, FALSE, <<"\n", "\n", "\n">>)  \* /\n{4,}/g
      t14 == ReplaceRuns(t13, {"\n"}, 3, TRUE, <<"\n", "\n">>)         \* /\n{3}/g
      t15 == ReplaceLinePattern("bullet", t14, <<Bullet, " ">>)
      t16 == ReplaceLinePattern("numbered", t15, <<>>)
      t17 == ReplaceRuns(t16, {"."}, 3, FALSE, <<".", ".", ".">>)      \* /\.{3,}/g
      t18 == ReplaceRuns(t17, {"!"}, 2, FALSE, <<"!">>)                \* /!{2,}/g
      t19 == ReplaceRuns(t18, {"?"}, 2, FALSE, <<"?">>)                \* /\?{2,}/g
      t20 == ReplaceRuns(t19, BlankChars, 2, FALSE, <<" ">>)           \* /[ \t]{2,}/g
      t21 == ReplaceLinePattern("trim", t20, <<>>)                     \* /^\s+|\s+$/gm
  IN IF text = <<>> THEN <<>> ELSE Trim(t21)

-----------------------------------------------------------------------------
(* FileService.createFileContent, and one report saved and read back *)

MaxChunks == 2             \* an analysis text is at most this many chunks
ComprehensiveLength == 5000 \* responseLength > 5000 ? 'COMPREHENSIVE' : 'STANDARD'
SeparatorLength == 50       \* '='.repeat(50)
SeparatorLengthV2 == 80     \* '='.repeat(80)

\* new Date(x).toLocaleString()
LocaleString(t) == "<" \o ToString(t) \o " as a locale date and time>"

\* value || fallback, for strings
OrElse(value, fallback) == IF value = <<>> THEN fallback ELSE value

\* Array.prototype.join
Join(items, separator) ==
  [i \in 1..(IF items = <<>> THEN 0 ELSE 2 * Len(items) - 1) |->
     IF i % 2 = 1 THEN items[(i + 1) \div 2] ELSE separator]

QualityOf(responseLength) ==
  IF responseLength > ComprehensiveLength THEN "COMPREHENSIVE" ELSE "STANDARD"

\* const header of createFileContent (the cleaned version)
RenderHeader(name, metadata, formData) ==
  <<"Brand Visibility Analysis of ">> \o name \o <<"\n">>
  \o Repeat("=", SeparatorLength) \o <<"\n", "\n">>
  \o <<"Generated: ", LocaleString(metadata.timestamp), "\n">>
  \o <<"Website: ">> \o OrElse(formData.websiteUrl, <<"Not provided">>) \o <<"\n">>
  \o <<"Contact: ">> \o OrElse(formData.email, <<"Not provided">>) \o <<"\n", "\n">>
  \o <<"Analysis Parameters:", "\n">>
  \o <<"- Processing Time: ", ToString(metadata.processingTime), "ms", "\n">>
  \o <<"- Analysis Quality: ", QualityOf(metadata.responseLength), "\n">>
  \o <<"- Client Specifications: ", ToString(Len(formData.competitors)), " competitors, ",
       ToString(Len(formData.topics)), " topics, ", ToString(Len(formData.prompts)), " prompts",
       "\n", "\n">>
  \o Repeat("=", SeparatorLength) \o <<"\n", "\n">>

\* const footer of createFileContent (the cleaned version)
RenderFooter(now, formData) ==
  <<"\n", "\n">> \o Repeat("=", SeparatorLength) \o <<"\n">>
  \o <<"Analysis completed on ", LocaleString(now), "\n">>
  \o <<"For questions or clarifications, contact: ">>
  \o OrElse(formData.email, <<"client">>) \o <<"\n">>
  \o Repeat("=", SeparatorLength)

\* const header of the earlier createFileContent
RenderHeaderV2(name, metadata, formData) ==
  <<"AI/LLM BRAND VISIBILITY AUDIT REPORT", "\n">>
  \o Repeat("=", SeparatorLengthV2) \o <<"\n", "\n">>
  \o <<"BRAND: ">> \o name \o <<"\n">>
  \o <<"WEBSITE: ">> \o OrElse(formData.websiteUrl, <<"Not provided">>) \o <<"\n">>
  \o <<"CONTACT: ">> \o OrElse(formData.email, <<"Not provided">>) \o <<"\n">>
  \o <<"GENERATED: ", LocaleString(metadata.timestamp), "\n">>
  \o <<"REQUEST ID: ", metadata.requestId, "\n", "\n">>
  \o <<"ANALYSIS PARAMETERS:", "\n">>
  \o <<"- AI Model: ", metadata.model, "\n">>
  \o <<"- Processing Time: ", ToString(metadata.processingTime), "ms", "\n">>
  \o <<"- Tokens Used: ", ToString(metadata.tokensUsed), "\n">>
  \o <<"- Input Tokens: ", ToString(metadata.inputTokens), "\n">>
  \o <<"- Output Tokens: ", ToString(metadata.outputTokens), "\n">>
  \o <<"- Response Length: ", ToString(metadata.responseLength), " characters", "\n">>
  \o <<"- Analysis Quality: ", QualityOf(metadata.responseLength), "\n", "\n">>
  \o <<"CLIENT SPECIFICATIONS:", "\n">>
  \o (IF Len(formData.competitors) > 0
      THEN <<"- Competitors Analyzed: ">> \o Join(formData.competitors, ", ")
      ELSE <<"- Competitors: AI-Generated List">>) \o <<"\n">>
  \o (IF formData.personas # <<>>
      THEN <<"- Target Personas: ">> \o formData.personas
      ELSE <<"- Target Personas: AI-Generated">>) \o <<"\n">>
  \o (IF Len(formData.topics) > 0
      THEN <<"- Key Topics: ">> \o Join(formData.topics, ", ")
      ELSE <<"- Key Topics: AI-Generated">>) \o <<"\n">>
  \o (IF Len(formData.prompts) > 0
      THEN <<"- Custom Prompts: ", ToString(Len(formData.prompts)), " provided">>
      ELSE <<"- Prompts: AI-Generated">>) \o <<"\n", "\n">>
  \o Repeat("=", SeparatorLengthV2) \o <<"\n", "COMPREHENSIVE ANALYSIS RESULTS", "\n">>
  \o Repeat("=", SeparatorLengthV2) \o <<"\n", "\n">>

\* const footer of the earlier createFileContent
RenderFooterV2(now, formData) ==
  <<"\n", "\n">> \o Repeat("=", SeparatorLengthV2) \o <<"\n", "END OF ANALYSIS", "\n">>
  \o Repeat("=", SeparatorLengthV2) \o <<"\n", "\n">>
  \o <<"Report generated by Geo Analysis Service", "\n">>
  \o <<"For questions or clarifications, contact: ">>
  \o OrElse(formData.email, <<"client">>) \o <<"\n">>
  \o <<"Analysis Date: ", LocaleString(now), "\n", "Service Version: 1.0.0">>

\* createFileContent writing the analysis text as it came
createFileContentUncleaned(name, analysisText, metadata, formData, now) ==
  RenderHeader(name, metadata, formData) \o analysisText \o RenderFooter(now, formData)

\* FileService.createFileContent: header + cleanedAnalysis + footer
createFileContent(name, analysisText, metadata, formData, now) ==
  RenderHeader(name, metadata, formData)
  \o cleanAnalysisText(analysisText)
  \o RenderFooter(now, formData)

\* the earlier FileService.createFileContent: header + analysisText + footer
createFileContentV2(name, analysisText, metadata, formData, now) ==
  RenderHeaderV2(name, metadata, formData) \o analysisText \o RenderFooterV2(now, formData)

FileServiceVersions == {"cleaned", "v2"}

TextChunks ==
  { <<"a">>, <<"a", "\n", "a", " ", "a">>, <<" ">>, <<"\t">>, <<"\n">>, <<"\n", "\n", "\n">>,
    <<"#">>, <<"#", "#", "#">>, <<"*", "*">>, <<"-">>, <<"+">>, <<"-", "-", "-">>,
    <<"=", "=", "=">>, <<".", ".", ".", ".">>, <<"!", "!">>, <<"?", "?">>,
    <<"1", ".">>,
    <<"#", " ", UltraComprehensive>>, <<"#", "#", " ">> \o Premium50000,
    PremiumDeliverable }

RECURSIVE ChunkTexts(_)
ChunkTexts(n) ==
  IF n = 0 THEN {<<>>}
  ELSE ChunkTexts(n - 1) \cup {t \o c : t \in ChunkTexts(n - 1), c \in TextChunks}

\* validated request bodies: one with every optional field, one with none
FormDatas ==
  { [brandName |-> <<"A", "c", "m", "e", "!", "!">>,
     websiteUrl |-> <<"https://acme.test">>, email |-> <<"a@acme.test">>,
     competitors |-> <<"Globex", "Initech">>, personas |-> <<"CTOs">>,
     topics |-> <<"pricing">>, prompts |-> <<"best widget?">>],
    [brandName |-> <<"A", "C", "M", "E">>,
     websiteUrl |-> <<>>, email |-> <<>>,
     competitors |-> <<>>, personas |-> <<>>, topics |-> <<>>, prompts |-> <<>>] }

\* the metadata the analysis client returns with its text
MetadataFor(text) ==
  [timestamp |-> 7, requestId |-> "1b9d6bcd-bbfd-4b2d", model |-> "claude",
   processingTime |-> 1200, inputTokens |-> 1, outputTokens |-> 2, tokensUsed |-> 3,
   responseLength |-> Len(text)]

NoFile == <<"<no file>">>

RtIdle ==
  /\ rtPc = "idle"
  /\ rtArgs = [version |-> "cleaned", analysisText |-> <<>>,
               formData |-> CHOOSE f \in FormDatas : f.email = <<>>, now |-> 0]
  /\ rtFile = NoFile
  /\ rtContent = NoFile

RtInit ==
  /\ rtPc = "start"
  /\ rtArgs \in [version : FileServiceVersions,
                 analysisText : ChunkTexts(MaxChunks), formData : FormDatas,
                 now : {8}]
  /\ rtFile = NoFile
  /\ rtContent = NoFile

\* saveAnalysisToFile: createFileContent, then fs.writeFile(filePath, fileContent)
WriteReport ==
  /\ rtPc = "start"
  /\ rtFile' =
       IF rtArgs.version = "cleaned"
       THEN createFileContent(rtArgs.formData.brandName, rtArgs.analysisText,
                              MetadataFor(rtArgs.analysisText), rtArgs.formData, rtArgs.now)
       ELSE createFileContentV2(rtArgs.formData.brandName, rtArgs.analysisText,
                                MetadataFor(rtArgs.analysisText), rtArgs.formData, rtArgs.now)
  /\ rtPc' = "saved"
  /\ UNCHANGED <<rtArgs, rtContent>>
  /\ UNCHANGED notRt

\* readFile: fs.readFile(filePath, 'utf8') of the path save returned
ReadReport ==
  /\ rtPc = "saved"
  /\ rtContent' = rtFile
  /\ rtPc' = "read"
  /\ UNCHANGED <<rtArgs, rtFile>>
  /\ UNCHANGED notRt

RtNext == WriteReport \/ ReadReport

-----------------------------------------------------------------------------
(* The report tree: FileService.createBrandFolder, generateFileName,
   saveAnalysisToFile, getFilesList, getBrandFiles *)

MaxReports == 2            \* saves in one behaviour of the store
MaxTime == 1               \* the clock runs from 0 to MaxTime

\* "abc" as <<"a", "b", "c">>, for the literals of the code
AnalysisInfix == <<"_", "a", "n", "a", "l", "y", "s", "i", "s", "_">>
TxtSuffix == <<".", "t", "x", "t">>
Legacy == <<"L", "e", "g", "a", "c", "y">>
Null == <<"<null>">>

\* path.join(this.reportsDir, '') is reportsDir itself
RootFolder == <<>>

\* the brand names of the requests
BrandNames == { <<"A", "c", "m", "e", "!", "!">>, <<"A", "C", "M", "E">>, <<"Z", "!">> }

\* a number below 100 as two decimal digits
DigitChars == <<"0", "1", "2", "3", "4", "5", "6", "7", "8", "9">>
TwoDigits(n) == <<DigitChars[((n \div 10) % 10) + 1], DigitChars[(n % 10) + 1]>>

\* uuidv4(): the identifier of the k-th request; no two requests share one
RequestId(k) == <<"b", "9">> \o TwoDigits(k) \o <<"-", "4", "d", "e", "f">>

\* requestId.split('-')[0]
FirstSegment(id) ==
  IF \E i \in 1..Len(id) : id[i] = "-"
  THEN SubSeq(id, 1, (CHOOSE i \in 1..Len(id) :
                        id[i] = "-" /\ \A j \in 1..(i - 1) : id[j] # "-") - 1)
  ELSE id

\* brandName.replace(/[^a-zA-Z0-9]/g, '_')
ReplaceNonAlnum(s) == [i \in 1..Len(s) |-> IF IsAlnum(s[i]) THEN s[i] ELSE "_"]

\* moment().format('YYYY-MM-DD_HH-mm-ss'), on a day where the clock counts
\* the seconds since midnight
FormatTimestamp(t) ==
  <<"2", "0", "2", "4", "-", "0", "1", "-", "0", "1", "_">>
  \o TwoDigits(t \div 3600) \o <<"-">> \o TwoDigits((t \div 60) % 60)
  \o <<"-">> \o TwoDigits(t % 60)

\* a file name whose prefix is the folder token
generateFileNameFromFolderToken(name, requestId, t) ==
  sanitizeBrandName(name) \o AnalysisInfix \o FormatTimestamp(t)
  \o <<"_">> \o FirstSegment(requestId) \o TxtSuffix

\* a file name without the request id's first segment
generateFileNameWithoutId(name, requestId, t) ==
  ToLowerCase(ReplaceNonAlnum(name)) \o AnalysisInfix \o FormatTimestamp(t) \o TxtSuffix

\* FileService.generateFileName
generateFileName(name, requestId, t) ==
  ToLowerCase(ReplaceNonAlnum(name)) \o AnalysisInfix \o FormatTimestamp(t)
  \o <<"_">> \o FirstSegment(requestId) \o TxtSuffix

\* createBrandFolder: fs.access, and fs.mkdir when the folder is not there
FoldersAfterCreate(fs, name) == fs \cup {sanitizeBrandName(name)}

FileAt(fl, folder, fileName) ==
  {f \in fl : f.brandFolder = folder /\ f.fileName = fileName}

\* fs.writeFile(filePath, ...): a new file is born now, an existing one is
\* overwritten and keeps its birth time
FilesAfterWrite(fl, name, requestId, t) ==
  LET folder == sanitizeBrandName(name)
      fileName == generateFileName(name, requestId, t)
      old == FileAt(fl, folder, fileName)
      born == IF old = {} THEN t ELSE (CHOOSE f \in old : TRUE).created
  IN (fl \ old) \cup {[brandFolder |-> folder, fileName |-> fileName,
                       created |-> born, savedFor |-> name]}

\* one entry of getFilesList: a file of a brand folder (getBrandFiles), or a
\* file directly in reportsDir
FileDetails(f) ==
  IF f.brandFolder = RootFolder
  THEN [fileName |-> f.fileName, brandName |-> Legacy, brandFolder |-> Null,
        created |-> f.created]
  ELSE [fileName |-> f.fileName, brandName |-> f.brandFolder,
        brandFolder |-> f.brandFolder, created |-> f.created]

\* the entries in any order the walk may give them, without the sort
Unsorted(S) ==
  {q \in [1..Cardinality(S) -> S] : \A i, j \in 1..Cardinality(S) : i < j => q[i] # q[j]}

\* the orders fileDetails.sort((a, b) => new Date(b.created) - new Date(a.created))
\* can leave the entries in: newest first, entries of one instant in the
\* order the directories were read
SortedByCreated(S) ==
  {q \in [1..Cardinality(S) -> S] :
     /\ \A i, j \in 1..Cardinality(S) : i < j => q[i] # q[j]
     /\ \A i, j \in 1..Cardinality(S) : i < j => q[i].created >= q[j].created}

\* Array.prototype.filter
FilterSeq(q, Keep(_)) == SelectSeq(q, Keep)

TreeInit ==
  /\ folders = {RootFolder}
  /\ files = {}
  /\ clock = 0

-----------------------------------------------------------------------------
(* BrandService.getAllReports *)

\* an absent query parameter
Absent == <<>>

NaN == -1

\* the date strings of the requests
IsoDate(t) == <<"2024-01-01T", TwoDigits(t \div 3600), ":", TwoDigits((t \div 60) % 60),
                ":", TwoDigits(t % 60)>>
NotADate == <<"yesterday">>

\* new Date(string).getTime(): the seconds since midnight, or NaN
ParseDate(str) ==
  IF \E t \in 0..59 : IsoDate(t) = str
  THEN CHOOSE t \in 0..59 : IsoDate(t) = str
  ELSE NaN

\* a >= b on two Dates: false when either is an Invalid Date
DateGE(a, b) == a # NaN /\ b # NaN /\ a >= b

BrandNameFilters == {Absent} \cup BrandNames \cup {<<"c", "m">>}
DateFilters == {Absent, NotADate} \cup {IsoDate(t) : t \in 0..MaxTime}

Filters == [brandName : BrandNameFilters, fromDate : DateFilters, toDate : DateFilters]

NoFilters == [brandName |-> Absent, fromDate |-> Absent, toDate |-> Absent]

\* file.brandName.toLowerCase().includes(searchTerm) ||
\* file.fileName.toLowerCase().includes(searchTerm)
MatchesBrandName(fl, filters, d) ==
  \/ Includes(ToLowerCase(d.brandName), ToLowerCase(filters.brandName))
  \/ Includes(ToLowerCase(d.fileName), ToLowerCase(filters.brandName))

\* the toDate comparison made strict
BeforeToDateExclusive(filters, d) ==
  DateGE(ParseDate(filters.toDate), d.created) /\ ParseDate(filters.toDate) # d.created

\* new Date(file.created) <= toDate
BeforeToDate(filters, d) == DateGE(ParseDate(filters.toDate), d.created)

\* new Date(file.created) >= fromDate
AfterFromDate(filters, d) == DateGE(d.created, ParseDate(filters.fromDate))

\* BrandService.getAllReports, for one order of the listing
getAllReports(fl, filters, sortedFiles) ==
  LET KeepBrand(d) == filters.brandName # Absent => MatchesBrandName(fl, filters, d)
      KeepFrom(d) == filters.fromDate # Absent => AfterFromDate(filters, d)
      KeepTo(d) == filters.toDate # Absent => BeforeToDate(filters, d)
  IN FilterSeq(FilterSeq(FilterSeq(sortedFiles, KeepBrand), KeepFrom), KeepTo)

NotListed == <<[fileName |-> <<>>, brandName |-> <<>>, brandFolder |-> Null,
                created |-> NaN]>>

ListInit ==
  /\ listFilters = NoFilters
  /\ listed = NotListed

-----------------------------------------------------------------------------
(* FileService.deleteFile *)

\* the error of a file system call on a path where no file is
ENOENT(syscall) ==
  [message |-> <<"ENOENT: no such file or directory, ", syscall>>, status |-> 0,
   code |-> "ENOENT"]

\* fs.unlink of a path where no file is
NoSuchFile == ENOENT("unlink")

\* throw new Error(`File not found: ${fileName}`)
FileNotFound(fileName) ==
  [message |-> <<"File not found: ">> \o fileName, status |-> 0, code |-> ""]

\* the folder a listing entry's filePath lies in
FolderOfEntry(d) == IF d.brandFolder = Null THEN RootFolder ELSE d.brandFolder

\* allFiles.find(f => f.fileName === fileName): the entries with that name,
\* in the order of the listing
FindByName(sortedFiles, fileName) ==
  LET HasName(d) == d.fileName = fileName
  IN SelectSeq(sortedFiles, HasName)

\* an unlink that succeeds when nothing is there
unlinkForce(fl, target) == [files |-> fl \ target, error |-> NoError]

\* await fs.unlink(filePath): target is the file at filePath, if any
unlink(fl, target) ==
  IF target = {}
  THEN [files |-> fl, error |-> NoSuchFile]
  ELSE [files |-> fl \ target, error |-> NoError]

\* FileService.deleteFile: the files left, and the error thrown (NoError
\* when it returned true)
deleteFile(fl, fileName, brandFolder, sortedFiles) ==
  IF brandFolder # Absent
  THEN unlink(fl, FileAt(fl, brandFolder, fileName))
  ELSE LET found == FindByName(sortedFiles, fileName)
       IN IF found = <<>>
          THEN [files |-> fl, error |-> FileNotFound(fileName)]
          ELSE unlink(fl, FileAt(fl, FolderOfEntry(found[1]), fileName))

\* a file name and a folder name no report has
MissingFileName == <<"n", "o", "n", "e">> \o TxtSuffix
MissingFolder == <<"n", "o", "n", "e">>

DeleteFileNames == {MissingFileName} \cup {f.fileName : f \in files}
DeleteFolders == {Absent, MissingFolder} \cup (folders \ {RootFolder})

NotDeleted ==
  [called |-> FALSE, fileName |-> <<>>, brandFolder |-> Absent, returned |-> FALSE,
   error |-> NoError]

DelInit == delResult = NotDeleted

\* no listing and no delete has ended the behaviour
StoreOpen == listed = NotListed /\ delResult = NotDeleted

\* DELETE /files/:fileName -> brandService.deleteReport -> fileService.deleteFile.
\* Taken as the last step of a behaviour, as a listing is.
DeleteFile(fileName, brandFolder, sortedFiles) ==
  /\ StoreOpen
  /\ LET outcome == deleteFile(files, fileName, brandFolder, sortedFiles)
     IN /\ files' = outcome.files
        /\ delResult' = [called |-> TRUE, fileName |-> fileName,
                         brandFolder |-> brandFolder,
                         returned |-> (outcome.error = NoError),
                         error |-> outcome.error]
  /\ UNCHANGED <<folders, clock, listFilters, listed>>
  /\ UNCHANGED notStore

\* saveAnalysisToFile(brandName, ...) with a fresh request id
StoreSave(name) ==
  /\ StoreOpen
  /\ Cardinality(files) < MaxReports
  /\ folders' = FoldersAfterCreate(folders, name)
  /\ files' = FilesAfterWrite(files, name, RequestId(Cardinality(files) + 1), clock)
  /\ UNCHANGED <<clock, listFilters, listed, delResult>>
  /\ UNCHANGED notStore

\* a second passes
StoreTick ==
  /\ StoreOpen
  /\ clock < MaxTime
  /\ clock' = clock + 1
  /\ UNCHANGED <<folders, files, listFilters, listed, delResult>>
  /\ UNCHANGED notStore

\* GET /files -> brandService.getAllReports(filters). A listing changes
\* nothing in the tree, so it is taken as the last step of a behaviour.
ListReports(filters, sortedFiles) ==
  /\ StoreOpen
  /\ listed' = getAllReports(files, filters, sortedFiles)
  /\ listFilters' = filters
  /\ UNCHANGED <<folders, files, clock, delResult>>
  /\ UNCHANGED notStore

StoreNext ==
  \/ \E name \in BrandNames : StoreSave(name)
  \/ StoreTick
  \/ \E sortedFiles \in SortedByCreated({FileDetails(f) : f \in files}) :
       \E filters \in Filters : ListReports(filters, sortedFiles)
  \/ \E sortedFiles \in SortedByCreated({FileDetails(f) : f \in files}) :
       \E fileName \in DeleteFileNames, brandFolder \in DeleteFolders :
         DeleteFile(fileName, brandFolder, sortedFiles)

-----------------------------------------------------------------------------
(* The analysis routes and the orchestrator: POST /comprehensive, POST /,
   POST /bulk; BrandService.analyzeComprehensiveBrand, BrandService.analyzeBrand *)

MaxBulk == 2               \* longest accepted bulk list the requests carry
MaxBulkBrands == 10        \* brands.length > 10
MaxCompetitors == 5        \* formData.competitors.length > 5
MaxTopics == 4             \* formData.topics.length > 4
MaxPrompts == 4            \* formData.prompts.length > 4

\* /^[^\s@]+@[^\s@]+\.[^\s@]+$/ and new URL(...), on the addresses of FormDatas
WellFormedEmails == {<<"a@acme.test">>}
WellFormedUrls == {<<"https://acme.test">>}

\* BrandService.validateFormData: the messages it collects
FormDataErrors(formData) ==
  (IF Trim(formData.brandName) = <<>> THEN <<"Brand name is required">> ELSE <<>>)
  \o (IF formData.websiteUrl = <<>> THEN <<"Website URL is required">> ELSE <<>>)
  \o (IF formData.email = <<>> THEN <<"Email address is required">> ELSE <<>>)
  \o (IF formData.email # <<>> /\ formData.email \notin WellFormedEmails
      THEN <<"Invalid email format">> ELSE <<>>)
  \o (IF formData.websiteUrl \notin WellFormedUrls
      THEN <<"Invalid website URL format">> ELSE <<>>)
  \o (IF Len(formData.competitors) > MaxCompetitors
      THEN <<"Maximum 5 competitors allowed">> ELSE <<>>)
  \o (IF Len(formData.topics) > MaxTopics THEN <<"Maximum 4 topics allowed">> ELSE <<>>)
  \o (IF Len(formData.prompts) > MaxPrompts THEN <<"Maximum 4 prompts allowed">> ELSE <<>>)

\* throw new Error(`Validation failed: ${errors.join(', ')}`)
ValidationError(formData) ==
  [message |-> <<"Validation failed: ">> \o Join(FormDataErrors(formData), ", "),
   status |-> 0,
   code |-> ""]

NoFormData == CHOOSE f \in FormDatas : f.email = <<>>

\* what the analysis client raises: analyzeBrandComprehensive throws the
\* mapped Error, the legacy analyzeBrand rethrows the provider's error
ClientFailures(kind) ==
  IF kind = "comprehensive"
  THEN {MapClientError(st, ProviderMessage(st)) : st \in Statuses}
  ELSE {[message |-> ProviderMessage(st), status |-> st, code |-> ""] : st \in Statuses}

\* what fs.mkdir / fs.writeFile raise
FsError == [message |-> <<"EACCES: permission denied">>, status |-> 0, code |-> "EACCES"]
SaveOutcomes == {"saved", "mkdir fails", "writeFile fails"}

\* the request bodies
ComprehensiveRequests ==
  {[route |-> "comprehensive", isArray |-> FALSE, brands |-> <<f.brandName>>,
    formData |-> f] : f \in FormDatas}
LegacyRequests ==
  {[route |-> "legacy", isArray |-> FALSE, brands |-> <<b>>, formData |-> NoFormData] :
     b \in BrandNames}
BulkRequests ==
  {[route |-> "bulk", isArray |-> TRUE, brands |-> bs, formData |-> NoFormData] :
     bs \in SeqsUpTo(BrandNames, MaxBulk)
            \cup {Repeat(CHOOSE b \in BrandNames : TRUE, MaxBulkBrands + 1)}}
  \cup {[route |-> "bulk", isArray |-> FALSE, brands |-> <<>>, formData |-> NoFormData]}
Requests == ComprehensiveRequests \cup LegacyRequests \cup BulkRequests

NoRequest == [route |-> "none", isArray |-> FALSE, brands |-> <<>>, formData |-> NoFormData]

\* res.status(400).json({success: false, error})
BadRequest(message) ==
  [status |-> 400, success |-> FALSE, error |-> message, successful |-> <<>>,
   failed |-> <<>>, total |-> 0, nSuccessful |-> 0, nFailed |-> 0]

\* the error reaches asyncHandler's catch and is passed to next(error)
PassedToErrorHandler(error) ==
  [status |-> 0, success |-> FALSE, error |-> error.message, successful |-> <<>>,
   failed |-> <<>>, total |-> 0, nSuccessful |-> 0, nFailed |-> 0]

\* res.json({success: true, ...}) of the single-brand routes
AnalysisResponse(result) ==
  [status |-> 200, success |-> TRUE, error |-> <<>>, successful |-> <<result>>,
   failed |-> <<>>, total |-> 1, nSuccessful |-> 1, nFailed |-> 0]

\* res.json({success: true, data: {successful, failed, summary}}) of /bulk
BulkResponse(brands, successful, failed) ==
  [status |-> 200, success |-> TRUE, error |-> <<>>, successful |-> successful,
   failed |-> failed, total |-> Len(brands), nSuccessful |-> Len(successful),
   nFailed |-> Len(failed)]

NoResponseYet ==
  [status |-> 0, success |-> FALSE, error |-> <<>>, successful |-> <<>>,
   failed |-> <<>>, total |-> 0, nSuccessful |-> 0, nFailed |-> 0]

\* the orchestrator's catch wrapping the error in a new one
RethrowWrapped(error) == [message |-> <<"Analysis failed">>, status |-> 0, code |-> ""]

\* the orchestrator's catch: throw error
Rethrow(error) == error

\* the bulk catch forgetting the failure
BulkCatchDropsFailure(errs, name, error) == errs

\* the bulk catch: errors.push({brandName, error: error.message, status: 'failed'})
BulkCatch(errs, name, error) ==
  Append(errs, [brandName |-> name, error |-> error.message, status |-> "failed"])

\* results.push({brandName: result.brandName, fileName, requestId, status: 'success'})
BulkPush(res, result) ==
  Append(res, [brandName |-> result.brandName, fileName |-> result.fileName,
               requestId |-> result.requestId, status |-> "success"])

\* a loop that starts the next brand without awaiting the previous one
StartsWithoutAwait(flying) == TRUE

\* for (const brandName of brands) { await brandService.analyzeBrand(...) }:
\* the next iteration begins when the awaited analysis has settled
AwaitSettled(flying) == flying = {}

\* no request is being handled
AnInit ==
  /\ anPc = "idle"
  /\ request = NoRequest
  /\ idx = 0
  /\ phase = "none"
  /\ inFlight = {}
  /\ callLog = <<>>
  /\ uuids = 0
  /\ raised = NoError
  /\ thrown = NoError
  /\ treeAtStart = <<{RootFolder}, {}>>
  /\ results = <<>>
  /\ errors = <<>>
  /\ httpResponse = NoResponseYet

\* the report tree when the request arrives: empty, or holding one report
TreeWithOneReport ==
  LET name == CHOOSE b \in BrandNames : sanitizeBrandName(b) # RootFolder /\ \E i \in 1..Len(b) : IsLower(b[i])
  IN /\ folders = FoldersAfterCreate({RootFolder}, name)
     /\ files = FilesAfterWrite({}, name, RequestId(0), 0)
     /\ clock = 0

\* the /bulk checks without the limit on the number of brands
BulkRejectionWithoutLimit(req) ==
  IF ~req.isArray \/ Len(req.brands) = 0
  THEN <<"Brands array is required and must not be empty">>
  ELSE <<>>

\* the error of the 400 the /bulk handler answers with before its loop;
\* <<>> when the body passes both checks
BulkRejection(req) ==
  IF ~req.isArray \/ Len(req.brands) = 0
  THEN <<"Brands array is required and must not be empty">>
  ELSE IF Len(req.brands) > MaxBulkBrands
       THEN <<"Maximum 10 brands allowed per bulk request">>
       ELSE <<>>

\* the route handler up to its first await: the /bulk checks of the body
Receive(req) ==
  /\ anPc = "idle"
  /\ request' = req
  /\ IF req.route = "bulk" /\ BulkRejection(req) # <<>>
     THEN /\ anPc' = "responded"
          /\ httpResponse' = BadRequest(BulkRejection(req))
     ELSE /\ anPc' = "handling"
          /\ httpResponse' = httpResponse
  /\ UNCHANGED <<idx, phase, inFlight, callLog, uuids, raised, thrown, treeAtStart,
                 results, errors>>
  /\ UNCHANGED treeVars
  /\ UNCHANGED notAnalyze

\* the orchestrator is entered for the next brand: uuidv4(), validateFormData
\* (comprehensive route), and the analysis client's request is issued
StartBrand ==
  /\ anPc = "handling"
  /\ idx < Len(request.brands)
  /\ AwaitSettled(inFlight)
  /\ idx' = idx + 1
  /\ uuids' = uuids + 1
  /\ treeAtStart' = <<folders, files>>
  /\ raised' = NoError
  /\ IF request.route = "comprehensive" /\ FormDataErrors(request.formData) # <<>>
     THEN /\ thrown' = Rethrow(ValidationError(request.formData))
          /\ phase' = "done"
          /\ anPc' = "responded"
          /\ httpResponse' = PassedToErrorHandler(thrown')
          /\ UNCHANGED <<inFlight, callLog>>
     ELSE /\ thrown' = NoError
          /\ phase' = "upstream"
          /\ inFlight' = inFlight \cup {idx + 1}
          /\ callLog' = Append(callLog, idx + 1)
          /\ UNCHANGED <<anPc, httpResponse>>
  /\ UNCHANGED <<request, results, errors>>
  /\ UNCHANGED treeVars
  /\ UNCHANGED notAnalyze

\* the orchestrator threw: the route's catch (bulk) or asyncHandler's
BrandFailed(error) ==
  /\ thrown' = error
  /\ phase' = "done"
  /\ inFlight' = inFlight \ {idx}
  /\ results' = results
  /\ IF request.route = "bulk"
     THEN /\ errors' = BulkCatch(errors, request.brands[idx], error)
          /\ IF idx = Len(request.brands)
             THEN /\ anPc' = "responded"
                  /\ httpResponse' = BulkResponse(request.brands, results', errors')
             ELSE UNCHANGED <<anPc, httpResponse>>
     ELSE /\ errors' = errors
          /\ anPc' = "responded"
          /\ httpResponse' = PassedToErrorHandler(error)

\* the orchestrator returned its result
BrandSucceeded(result) ==
  /\ thrown' = thrown
  /\ phase' = "done"
  /\ inFlight' = inFlight \ {idx}
  /\ errors' = errors
  /\ IF request.route = "bulk"
     THEN /\ results' = BulkPush(results, result)
          /\ IF idx = Len(request.brands)
             THEN /\ anPc' = "responded"
                  /\ httpResponse' = BulkResponse(request.brands, results', errors')
             ELSE UNCHANGED <<anPc, httpResponse>>
     ELSE /\ results' = results
          /\ anPc' = "responded"
          /\ httpResponse' = AnalysisResponse(result)

\* the analysis client rejects; catch (error) { ...; throw error }
UpstreamFails ==
  /\ anPc = "handling"
  /\ phase = "upstream"
  /\ \E e \in ClientFailures(request.route) :
       /\ raised' = e
       /\ BrandFailed(Rethrow(e))
  /\ UNCHANGED <<request, idx, callLog, uuids, treeAtStart>>
  /\ UNCHANGED treeVars
  /\ UNCHANGED notAnalyze

\* the analysis client resolves with the analysis text
UpstreamReturns ==
  /\ anPc = "handling"
  /\ phase = "upstream"
  /\ phase' = "saving"
  /\ UNCHANGED <<anPc, request, idx, inFlight, callLog, uuids, raised, thrown,
                 treeAtStart, results, errors, httpResponse>>
  /\ UNCHANGED treeVars
  /\ UNCHANGED notAnalyze

\* fileService.saveAnalysisToFile: createBrandFolder, generateFileName,
\* createFileContent, fs.writeFile; then the orchestrator returns
SaveReport(outcome) ==
  /\ anPc = "handling"
  /\ phase = "saving"
  /\ LET name == request.brands[idx]
         requestId == RequestId(uuids)
     IN CASE outcome = "saved" ->
               /\ folders' = FoldersAfterCreate(folders, name)
               /\ files' = FilesAfterWrite(files, name, requestId, clock)
               /\ BrandSucceeded([brandName |-> name, requestId |-> requestId,
                                  fileName |-> generateFileName(name, requestId, clock)])
          [] outcome = "mkdir fails" ->
               /\ sanitizeBrandName(name) \notin folders
               /\ UNCHANGED <<folders, files>>
               /\ BrandFailed(Rethrow(FsError))
          [] outcome = "writeFile fails" ->
               /\ folders' = FoldersAfterCreate(folders, name)
               /\ files' = files
               /\ BrandFailed(Rethrow(FsError))
  /\ UNCHANGED <<request, idx, callLog, uuids, raised, treeAtStart, clock>>
  /\ UNCHANGED notAnalyze

\* a second passes while the request is handled
AnTick ==
  /\ anPc = "handling"
  /\ clock < MaxTime
  /\ clock' = clock + 1
  /\ UNCHANGED <<folders, files>>
  /\ UNCHANGED anVars
  /\ UNCHANGED notAnalyze

AnalyzeNext ==
  \/ \E req \in Requests : Receive(req)
  \/ StartBrand
  \/ UpstreamFails
  \/ UpstreamReturns
  \/ \E outcome \in SaveOutcomes : SaveReport(outcome)
  \/ AnTick

-----------------------------------------------------------------------------
(* Errors on their way to the response: the client's catch, the file routes,
   notFound and errorHandler *)

ErrResponse(status, message) == [status |-> status, success |-> FALSE, error |-> message]

\* res.json({success: true, ...}) of a route handler
OkResponse == [status |-> 200, success |-> TRUE, error |-> <<>>]

NotAnswered == [status |-> 0, success |-> FALSE, error |-> <<>>]

NoProviderError == [status |-> 0, message |-> <<>>]

\* error.message of a rejected messages.create: the SDK's wording for the
\* status, or a body text of the provider that mentions a rate limit or an
\* API key
ProviderMessages(status) ==
  {ProviderMessage(status),
   <<"the ", "rate limit", " was reached">>,
   <<"the ", "API", " ", "key", " was rejected">>}

\* what the client method behind the route throws for a rejected
\* messages.create: analyzeBrandComprehensive maps it to a new Error,
\* analyzeBrand logs and rethrows the provider's error
ClientThrow(route, e) ==
  IF route = "comprehensive"
  THEN MapClientError(e.status, e.message)
  ELSE [message |-> e.message, status |-> e.status, code |-> ""]

\* FileService.readFile: the error thrown, NoError when the content is returned
readFileError(fl, fileName, brandFolder, sortedFiles) ==
  IF brandFolder # Absent
  THEN IF FileAt(fl, brandFolder, fileName) = {} THEN ENOENT("open") ELSE NoError
  ELSE IF FindByName(sortedFiles, fileName) = <<>>
       THEN FileNotFound(fileName)
       ELSE NoError

\* BrandService.getReport: readFile, then the entry is looked up in the listing
getReportError(fl, fileName, brandFolder, sortedFiles) ==
  LET e == readFileError(fl, fileName, brandFolder, sortedFiles)
      Matches(d) == d.fileName = fileName
                    /\ (brandFolder # Absent => d.brandFolder = brandFolder)
  IN IF e # NoError THEN e
     ELSE IF SelectSeq(sortedFiles, Matches) = <<>>
          THEN FileNotFound(fileName)
          ELSE NoError

\* notFound: new Error(`Not Found - ${req.originalUrl}`)
NotFoundError == [message |-> <<"Not Found - ", "/api/unknown">>, status |-> 0, code |-> ""]

\* errorHandler(err, req, res, next): the status and the message of the
\* response; the four ifs are evaluated in order, each overriding the last
errorHandler(err, statusCodeOfRes) ==
  LET s0 == IF statusCodeOfRes = 200 THEN 500 ELSE statusCodeOfRes
      m0 == err.message
      isClaude == Includes(err.message, <<"Claude", " ", "API">>)
      s1 == IF isClaude THEN 400 ELSE s0
      isRate == Includes(err.message, <<"rate limit">>)
      s2 == IF isRate THEN 429 ELSE s1
      m2 == IF isRate THEN <<"Rate limit exceeded. Please try again later.">> ELSE m0
      isNet == err.code \in {"ECONNRESET", "ETIMEDOUT"}
      s3 == IF isNet THEN 503 ELSE s2
      m3 == IF isNet
            THEN <<"Service temporarily unavailable. Please try again later.">>
            ELSE m2
      isAuth == err.status = 401 \/ Includes(err.message, <<"API", " ", "key">>)
      s4 == IF isAuth THEN 401 ELSE s3
      m4 == IF isAuth /\ Includes(err.message, <<"Claude">>)
            THEN <<"Claude", " ", "API", " ",
                   "authentication failed. Please check your ", "API", " ", "key", ".">>
            ELSE m3
  IN ErrResponse(s4, m4)

AnalysisRoutes == {"comprehensive", "legacy"}
FileRoutes == {"getReport", "deleteReport"}

\* POST /comprehensive, POST /, GET and DELETE /files/:fileName, and a URL
\* no route matches
ErrRequests ==
  {[route |-> r, brandName |-> b, fileName |-> <<>>, brandFolder |-> Absent] :
     r \in AnalysisRoutes, b \in BrandNames}
  \cup {[route |-> r, brandName |-> <<>>, fileName |-> n, brandFolder |-> f] :
          r \in FileRoutes, n \in DeleteFileNames, f \in DeleteFolders}
  \cup {[route |-> "unmatched", brandName |-> <<>>, fileName |-> <<>>,
         brandFolder |-> Absent]}

NoErrRequest ==
  [route |-> "none", brandName |-> <<>>, fileName |-> <<>>, brandFolder |-> Absent]

EhIdle ==
  /\ ehPc = "idle"
  /\ ehRequest = NoErrRequest
  /\ providerError = NoProviderError
  /\ attempts = 0
  /\ resStatusCode = 200
  /\ ehErr = NoError
  /\ ehResponse = NotAnswered

\* the request is routed; an unmatched URL falls through to notFound
ErrReceive(req) ==
  /\ ehPc = "idle"
  /\ ehRequest' = req
  /\ CASE req.route \in AnalysisRoutes ->
            /\ ehPc' = "primary"
            /\ attempts' = attempts + 1
            /\ UNCHANGED <<resStatusCode, ehErr>>
       [] req.route \in FileRoutes ->
            /\ ehPc' = "serving"
            /\ UNCHANGED <<attempts, resStatusCode, ehErr>>
       [] OTHER ->
            /\ ehPc' = "thrown"
            /\ resStatusCode' = 404
            /\ ehErr' = NotFoundError
            /\ UNCHANGED attempts
  /\ UNCHANGED <<providerError, ehResponse>>
  /\ UNCHANGED notErrors

\* messages.create rejects
ErrUpstreamRejects ==
  /\ ehPc = "primary"
  /\ \E status \in Statuses : \E message \in ProviderMessages(status) :
       providerError' = [status |-> status, message |-> message]
  /\ ehPc' = "caught"
  /\ UNCHANGED <<ehRequest, attempts, resStatusCode, ehErr, ehResponse>>
  /\ UNCHANGED notErrors

\* messages.create resolves and the client returns the analysis
ErrUpstreamResolves ==
  /\ ehPc = "primary"
  /\ ehPc' = "saving"
  /\ UNCHANGED <<ehRequest, providerError, attempts, resStatusCode, ehErr, ehResponse>>
  /\ UNCHANGED notErrors

\* the client's catch throws, the orchestrator's catch rethrows, and
\* asyncHandler passes the error to next
ErrClientCatch ==
  /\ ehPc = "caught"
  /\ ehErr' = Rethrow(ClientThrow(ehRequest.route, providerError))
  /\ ehPc' = "thrown"
  /\ UNCHANGED <<ehRequest, providerError, attempts, resStatusCode, ehResponse>>
  /\ UNCHANGED notErrors

\* saveAnalysisToFile writes the report and the route answers, or
\* fs.writeFile rejects
ErrSave(outcome) ==
  /\ ehPc = "saving"
  /\ IF outcome = "saved"
     THEN /\ folders' = FoldersAfterCreate(folders, ehRequest.brandName)
          /\ files' = FilesAfterWrite(files, ehRequest.brandName,
                                      RequestId(Cardinality(files) + 1), clock)
          /\ ehResponse' = OkResponse
          /\ ehPc' = "answered"
          /\ ehErr' = ehErr
     ELSE /\ ehErr' = Rethrow(FsError)
          /\ ehPc' = "thrown"
          /\ UNCHANGED <<folders, files, ehResponse>>
  /\ UNCHANGED <<ehRequest, providerError, attempts, resStatusCode, clock>>
  /\ UNCHANGED <<clientVars, sanVars, rtVars, listVars, delVars, anVars, gateVars, promptVars,
               walkVars, restVars>>

\* GET or DELETE /files/:fileName: getReport / deleteReport, then res.json,
\* or the error goes to next
ErrServeFile(sortedFiles) ==
  /\ ehPc = "serving"
  /\ LET outcome ==
           IF ehRequest.route = "getReport"
           THEN [files |-> files,
                 error |-> getReportError(files, ehRequest.fileName,
                                          ehRequest.brandFolder, sortedFiles)]
           ELSE deleteFile(files, ehRequest.fileName, ehRequest.brandFolder, sortedFiles)
     IN /\ files' = outcome.files
        /\ IF outcome.error = NoError
           THEN ehResponse' = OkResponse /\ ehPc' = "answered" /\ ehErr' = ehErr
           ELSE ehErr' = Rethrow(outcome.error) /\ ehPc' = "thrown"
                /\ ehResponse' = ehResponse
  /\ UNCHANGED <<ehRequest, providerError, attempts, resStatusCode, folders, clock>>
  /\ UNCHANGED <<clientVars, sanVars, rtVars, listVars, delVars, anVars, gateVars, promptVars,
               walkVars, restVars>>

\* app.use(errorHandler)
ErrorHandler ==
  /\ ehPc = "thrown"
  /\ ehResponse' = errorHandler(ehErr, resStatusCode)
  /\ ehPc' = "answered"
  /\ UNCHANGED <<ehRequest, providerError, attempts, resStatusCode, ehErr>>
  /\ UNCHANGED notErrors

ErrorsNext ==
  \/ \E req \in ErrRequests : ErrReceive(req)
  \/ ErrUpstreamRejects
  \/ ErrUpstreamResolves
  \/ ErrClientCatch
  \/ \E outcome \in {"saved", "writeFile fails"} : ErrSave(outcome)
  \/ \E sortedFiles \in SortedByCreated({FileDetails(f) : f \in files}) :
       ErrServeFile(sortedFiles)
  \/ ErrorHandler

-----------------------------------------------------------------------------
(* The middleware in front of the analysis routes: auth, then the route's
   validate(schema), then the handler *)

\* config.apiKey, and a key that is not it
ConfigApiKey == <<"k", "e", "y">>
WrongKey == <<"b", "a", "d">>

BearerPrefix == <<"B", "e", "a", "r", "e", "r", " ">>

\* req.headers.authorization: absent, a Bearer credential (right, wrong,
\* empty), or the key without a scheme
AuthorizationHeaders ==
  {<<>>, BearerPrefix \o ConfigApiKey, BearerPrefix \o WrongKey, BearerPrefix, ConfigApiKey}

\* req.headers['x-api-key']
XApiKeyHeaders == {<<>>, ConfigApiKey, WrongKey}

\* the x-api-key header ahead of the Authorization header
ProvidedKeyPrefersXApiKey(authHeader, apiKey) ==
  IF apiKey # <<>> THEN apiKey
  ELSE IF IsPrefix(BearerPrefix, authHeader)
       THEN SubSeq(authHeader, Len(BearerPrefix) + 1, Len(authHeader))
       ELSE <<>>

\* the x-api-key header tried when the Bearer credential is not the key
ProvidedKeyFallsBackToXApiKey(authHeader, apiKey) ==
  IF authHeader = BearerPrefix \o ConfigApiKey THEN ConfigApiKey
  ELSE IF apiKey # <<>> THEN apiKey
  ELSE IF IsPrefix(BearerPrefix, authHeader)
       THEN SubSeq(authHeader, Len(BearerPrefix) + 1, Len(authHeader))
       ELSE <<>>

\* providedKey: authHeader.slice(7) when the Authorization header starts
\* with 'Bearer ', else the x-api-key header when there is one, else null
ProvidedKey(authHeader, apiKey) ==
  IF authHeader # <<>> /\ IsPrefix(BearerPrefix, authHeader)
  THEN SubSeq(authHeader, Len(BearerPrefix) + 1, Len(authHeader))
  ELSE IF apiKey # <<>> THEN apiKey ELSE <<>>

GateResponse(status, error) == [status |-> status, error |-> error]

GateNotAnswered == GateResponse(0, <<>>)

\* auth(req, res, next): the 401 it sends, or GateNotAnswered when it calls next()
auth(authHeader, apiKey) ==
  LET providedKey == ProvidedKey(authHeader, apiKey)
  IN IF providedKey = <<>>
     THEN GateResponse(401, <<"Authentication required">>)
     ELSE IF providedKey # ConfigApiKey
     THEN GateResponse(401, <<"Invalid API key">>)
     ELSE GateNotAnswered

\* the fields of the body the route's Joi schema rejects
\* (comprehensiveBrandAnalysisSchema, brandAnalysisSchema); /bulk and the
\* read-only routes have no schema
SchemaErrors(req) ==
  LET name == IF req.brands = <<>> THEN <<>> ELSE req.brands[1]
      f == req.formData
      nameErrors ==
        IF Trim(name) = <<>> \/ Len(Trim(name)) > MaxBrandNameLength
        THEN {"brandName"} ELSE {}
  IN CASE req.route = "legacy" -> nameErrors
       [] req.route = "comprehensive" ->
            nameErrors
            \cup (IF f.websiteUrl \notin WellFormedUrls THEN {"websiteUrl"} ELSE {})
            \cup (IF f.email \notin WellFormedEmails THEN {"email"} ELSE {})
            \cup (IF Len(f.competitors) > MaxCompetitors THEN {"competitors"} ELSE {})
            \cup (IF Len(f.topics) > MaxTopics THEN {"topics"} ELSE {})
            \cup (IF Len(f.prompts) > MaxPrompts THEN {"prompts"} ELSE {})
       [] OTHER -> {}

\* a validate that hands every body on
validateCallsNext(req) == GateNotAnswered

\* validate(schema)(req, res, next): the 400 it sends, or GateNotAnswered
\* when it calls next()
validate(req) ==
  IF SchemaErrors(req) # {}
  THEN GateResponse(400, <<"Validation error">>)
  ELSE GateNotAnswered

TriggeringRoutes == {"comprehensive", "legacy", "bulk"}

\* the bodies sent to POST /comprehensive, POST /, POST /bulk, and a GET /files
GateBodies ==
  ComprehensiveRequests
  \cup {[route |-> "legacy", isArray |-> FALSE, brands |-> <<b>>, formData |-> NoFormData] :
          b \in {<<>>, <<"Z", "!">>}}
  \cup {[route |-> "bulk", isArray |-> a, brands |-> bs, formData |-> NoFormData] :
          a \in {TRUE}, bs \in {<<>>, <<<<"Z", "!">>>>, Repeat(<<"Z", "!">>, MaxBulkBrands + 1)}}
  \cup {[route |-> "bulk", isArray |-> FALSE, brands |-> <<>>, formData |-> NoFormData]}
  \cup {[route |-> "files", isArray |-> FALSE, brands |-> <<>>, formData |-> NoFormData]}

GateRequests ==
  {[authorization |-> a, xApiKey |-> x, body |-> b] :
     a \in AuthorizationHeaders, x \in XApiKeyHeaders, b \in GateBodies}

NoGateRequest == [authorization |-> <<>>, xApiKey |-> <<>>, body |-> NoRequest]

GateIdle ==
  /\ gatePc = "idle"
  /\ gateRequest = NoGateRequest
  /\ gateResponse = GateNotAnswered

\* a request to a path under /api/analysis arrives
GateArrive(req) ==
  /\ gatePc = "idle"
  /\ gatePc' = "arrived"
  /\ gateRequest' = req
  /\ UNCHANGED gateResponse
  /\ UNCHANGED notGate

\* app.use('/api/analysis', auth, analysisRoutes): auth answers 401 or calls next()
GateAuth ==
  /\ gatePc = "arrived"
  /\ gateResponse' = auth(gateRequest.authorization, gateRequest.xApiKey)
  /\ gatePc' = IF gateResponse' = GateNotAnswered THEN "authenticated" ELSE "rejected"
  /\ UNCHANGED gateRequest
  /\ UNCHANGED notGate

\* the route is matched and its validate middleware, if it has one, answers
\* 400 or calls next()
GateValidate ==
  /\ gatePc = "authenticated"
  /\ gateResponse' = validate(gateRequest.body)
  /\ gatePc' = IF gateResponse' = GateNotAnswered THEN "validated" ELSE "rejected"
  /\ UNCHANGED gateRequest
  /\ UNCHANGED notGate

\* the handler of an analysis-triggering route is entered with the body
GateHandle ==
  /\ gatePc = "validated"
  /\ gateRequest.body.route \in TriggeringRoutes
  /\ Receive(gateRequest.body)

\* the handler of a read-only route answers
GateServe ==
  /\ gatePc = "validated"
  /\ gateRequest.body.route \notin TriggeringRoutes
  /\ gatePc' = "served"
  /\ gateResponse' = GateResponse(200, <<>>)
  /\ UNCHANGED gateRequest
  /\ UNCHANGED notGate

GateNext ==
  \/ \E req \in GateRequests : GateArrive(req)
  \/ GateAuth
  \/ GateValidate
  \/ GateHandle
  \/ GateServe
  \/ StartBrand
  \/ UpstreamFails
  \/ UpstreamReturns
  \/ \E outcome \in SaveOutcomes : SaveReport(outcome)
  \/ AnTick

-----------------------------------------------------------------------------
(* createComprehensiveBrandAnalysisPrompt *)

MaxItems == 2              \* longest competitors / topics / prompts list of a form

\* items.map((item, index) => `${index + 1}. ${quote}${item}${quote}`).join('\n')
NumberedList(items, quote) ==
  [i \in 1..(6 * Len(items) - 1) |->
     LET k == ((i - 1) \div 6) + 1
         r == (i - 1) % 6
     IN CASE r = 0 -> ToString(k)
          [] r = 1 -> ". "
          [] r = 3 -> items[k]
          [] r = 5 -> "\n"
          [] OTHER -> quote]

\* competitorSection
CompetitorSection(name, competitors) ==
  IF Len(competitors) > 0
  THEN <<"CLIENT-SPECIFIED COMPETITORS TO ANALYZE:", "\n">>
       \o (NumberedList(competitors, ""))
       \o <<"\n\nAnalyze these competitors specifically and compare ">> \o name
       \o <<" against them in detail.">>
  ELSE <<"IDENTIFY AND ANALYZE TOP 5 COMPETITORS:",
         "\nResearch and identify the top 5 direct competitors for ">> \o name
       \o <<" based on: ... Provide detailed competitive analysis against each identified competitor.">>

\* topicsSection
TopicsSection(name, topics) ==
  IF Len(topics) > 0
  THEN <<"CLIENT-SPECIFIED KEY TOPICS TO FOCUS ON:", "\n">>
       \o (NumberedList(topics, ""))
       \o <<"\n\nFocus your analysis specifically on these topics and how ">> \o name
       \o <<" performs in visibility for these areas.">>
  ELSE <<"IDENTIFY 3-4 CORE TOPICS BASED ON BRAND ANALYSIS:",
         "\nBased on your research of ">> \o name
       \o <<", identify the 3-4 most important topics/service areas ...">>

\* a personas section that takes blank text for a persona description
PersonasSectionUntrimmed(name, personas) ==
  IF personas # <<>>
  THEN <<"CLIENT-SPECIFIED TARGET PERSONAS:", "\n">> \o personas
       \o <<"\n\nUse these specific persona details to guide your ICP development ...">>
  ELSE <<"DEVELOP COMPREHENSIVE IDEAL CUSTOMER PROFILES:",
         "\nBased on your analysis of ">> \o name
       \o <<", research and develop 2-3 detailed ICPs ...">>

\* personasSection: if (personas && personas.trim())
PersonasSection(name, personas) ==
  IF personas # <<>> /\ Trim(personas) # <<>>
  THEN <<"CLIENT-SPECIFIED TARGET PERSONAS:", "\n">> \o personas
       \o <<"\n\nUse these specific persona details to guide your ICP development ...">>
  ELSE <<"DEVELOP COMPREHENSIVE IDEAL CUSTOMER PROFILES:",
         "\nBased on your analysis of ">> \o name
       \o <<", research and develop 2-3 detailed ICPs ...">>

\* promptsSection
PromptsSection(name, prompts) ==
  IF Len(prompts) > 0
  THEN <<"CLIENT-SPECIFIED TEST PROMPTS:",
         "\nTest these specific prompts and analyze ">> \o name \o <<"'s visibility:\n">>
       \o (NumberedList(prompts, "\""))
       \o <<"\n\nAdditionally, develop 2-3 more relevant prompts based on your analysis.">>
  ELSE <<"DEVELOP REALISTIC TEST PROMPTS:",
         "\nCreate 4-5 realistic prompts that target customers would use when searching for services like ">>
       \o name \o <<" offers. ...">>

\* the template literal: the fixed text with the client information and the
\* four sections spliced in, in the order competitors, personas, topics, prompts
createComprehensiveBrandAnalysisPrompt(formData) ==
  <<"You are a Master-level AI/LLM Visibility Research Analyst ... CLIENT INFORMATION:\n- Brand: ">>
  \o formData.brandName \o <<"\n- Website: ">> \o formData.websiteUrl
  \o <<"\n- Contact: ">> \o formData.email
  \o <<" ... COMPETITIVE LANDSCAPE ASSESSMENT:\n\n">>
  \o CompetitorSection(formData.brandName, formData.competitors)
  \o <<"\n\nFor each competitor identified ... Step 2: DETAILED Ideal Customer Profile (ICP) Creation\n\n">>
  \o PersonasSection(formData.brandName, formData.personas)
  \o <<"\n\nPRIMARY ICP ... Step 3: STRATEGIC Topic Identification\n\n">>
  \o TopicsSection(formData.brandName, formData.topics)
  \o <<"\n\nFor each identified topic ... Step 4: EXTENSIVE Prompt Creation & Analysis\n\n">>
  \o PromptsSection(formData.brandName, formData.prompts)
  \o <<"\n\nFor each prompt (client-specified and AI-developed) ... MANDATORY: This analysis MUST be 6,000-8,000 words ...">>

\* the forms the prompt is built from: the three required fields, and every
\* combination of the four optional ones (personas also blank)
PromptFormDatas ==
  {[brandName |-> <<"A", "c", "m", "e">>, websiteUrl |-> <<"https://acme.test">>,
    email |-> <<"a@acme.test">>, competitors |-> c, topics |-> t, prompts |-> q,
    personas |-> p] :
     c \in SeqsUpTo({"Globex"}, MaxItems), t \in SeqsUpTo({"pricing"}, MaxItems),
     q \in SeqsUpTo({"best widget?"}, MaxItems), p \in {<<>>, <<" ">>, <<"CTOs">>}}

NoPromptFormData ==
  [brandName |-> <<>>, websiteUrl |-> <<>>, email |-> <<>>, competitors |-> <<>>,
   topics |-> <<>>, prompts |-> <<>>, personas |-> <<>>]

PromptIdle ==
  /\ prPc = "idle"
  /\ prFormData = NoPromptFormData
  /\ prompt = <<>>
  /\ promptAgain = <<>>

\* analyzeBrandComprehensive is entered with a validated form
PromptCall(formData) ==
  /\ prPc = "idle"
  /\ prPc' = "called"
  /\ prFormData' = formData
  /\ UNCHANGED <<prompt, promptAgain>>
  /\ UNCHANGED notPrompt

\* const prompt = createComprehensiveBrandAnalysisPrompt(formData)
BuildPrompt ==
  /\ prPc = "called"
  /\ prPc' = "built"
  /\ prompt' = createComprehensiveBrandAnalysisPrompt(prFormData)
  /\ UNCHANGED <<prFormData, promptAgain>>
  /\ UNCHANGED notPrompt

\* a later request with the same form builds its prompt
BuildPromptAgain ==
  /\ prPc = "built"
  /\ prPc' = "rebuilt"
  /\ promptAgain' = createComprehensiveBrandAnalysisPrompt(prFormData)
  /\ UNCHANGED <<prFormData, prompt>>
  /\ UNCHANGED notPrompt

PromptNext ==
  \/ \E formData \in PromptFormDatas : PromptCall(formData)
  \/ BuildPrompt
  \/ BuildPromptAgain

-----------------------------------------------------------------------------
(* FileService.getFilesList and getBrandFiles over a tree that also holds
   entries the service did not write *)

MaxStrays == 2             \* entries put into the tree from outside

EndsWithTxt(name) == IsSuffix(TxtSuffix, name)

AcmeFolder == <<"a", "c", "m", "e">>
OtherFolder == <<"o", "l", "d">>
SubFolder == <<"s", "u", "b">>

Stray(parent, name, isDirectory) ==
  [parent |-> parent, name |-> name, isDirectory |-> isDirectory, created |-> 0]

\* what can be put into the tree: a report and a note directly in the root,
\* a report in a folder of its own, a note and a directory named like a
\* report inside a brand folder, and a report one directory deeper
StrayEntries ==
  { {Stray(<<>>, <<"r">> \o TxtSuffix, FALSE)},
    {Stray(<<>>, <<"n", ".", "m", "d">>, FALSE)},
    {Stray(<<OtherFolder>>, <<"o">> \o TxtSuffix, FALSE)},
    {Stray(<<AcmeFolder>>, <<"d", ".", "m", "d">>, FALSE)},
    {Stray(<<AcmeFolder>>, <<"x">> \o TxtSuffix, TRUE)},
    {Stray(<<AcmeFolder>>, SubFolder, TRUE),
     Stray(<<AcmeFolder, SubFolder>>, <<"z">> \o TxtSuffix, FALSE)} }

\* the names and birth times fs.readdir and fs.stat give for a directory:
\* the reports written by the service and the entries from outside
Children(fl, strays, path) ==
  {[name |-> o.name, created |-> o.created] : o \in {x \in strays : x.parent = path}}
  \cup (IF Len(path) <= 1
        THEN {[name |-> f.fileName, created |-> f.created] :
                f \in {x \in fl : x.brandFolder = (IF path = <<>> THEN RootFolder ELSE path[1])}}
        ELSE {})

\* getBrandFiles without files.filter(file => file.endsWith('.txt'))
getBrandFilesUnfiltered(fl, strays, brandFolderName) ==
  {[fileName |-> c.name, brandName |-> brandFolderName, brandFolder |-> brandFolderName,
    created |-> c.created] : c \in Children(fl, strays, <<brandFolderName>>)}

\* FileService.getBrandFiles: every name of the folder that ends with .txt
getBrandFiles(fl, strays, brandFolderName) ==
  {[fileName |-> c.name, brandName |-> brandFolderName, brandFolder |-> brandFolderName,
    created |-> c.created] :
     c \in {x \in Children(fl, strays, <<brandFolderName>>) : EndsWithTxt(x.name)}}

\* the items of reportsDir for which stats.isDirectory() holds
RootDirectories(fs, strays) ==
  (fs \ {RootFolder}) \cup {o.name : o \in {x \in strays : x.parent = <<>> /\ x.isDirectory}}

\* FileService.getFilesList before its sort: the files of every directory of
\* the root, and the root's own .txt files as 'Legacy'
getFilesList(fs, fl, strays) ==
  UNION {getBrandFiles(fl, strays, d) : d \in RootDirectories(fs, strays)}
  \cup {[fileName |-> c.name, brandName |-> Legacy, brandFolder |-> Null,
         created |-> c.created] :
          c \in {x \in Children(fl, strays, <<>>) :
                   x.name \notin RootDirectories(fs, strays) /\ EndsWithTxt(x.name)}}

WalkFilters ==
  {NoFilters,
   [brandName |-> <<"c", "m">>, fromDate |-> Absent, toDate |-> Absent],
   [brandName |-> Absent, fromDate |-> IsoDate(MaxTime), toDate |-> Absent],
   [brandName |-> Absent, fromDate |-> Absent, toDate |-> IsoDate(0)]}

WalkIdle == others = {}

\* entries appear in the tree, born now; a directory of the root is a folder
PlaceEntries(entries) ==
  /\ StoreOpen
  /\ Cardinality(others) < MaxStrays
  /\ \A e \in entries : \A o \in others : <<o.parent, o.name>> # <<e.parent, e.name>>
  /\ others' = others \cup {[e EXCEPT !.created = clock] : e \in entries}
  /\ folders' = folders \cup {e.parent[1] : e \in {x \in entries : Len(x.parent) >= 1}}
  /\ UNCHANGED <<files, clock, listFilters, listed, delResult>>
  /\ UNCHANGED <<clientVars, sanVars, rtVars, anVars, ehVars, gateVars, promptVars, restVars>>

WalkNext ==
  \/ \E entries \in StrayEntries : PlaceEntries(entries)
  \/ StoreTick
  \/ \E sortedFiles \in SortedByCreated(getFilesList(folders, files, others)) :
       \E filters \in WalkFilters : ListReports(filters, sortedFiles)

-----------------------------------------------------------------------------
(* FileService.readFile and deleteFile over paths, BrandService.getReport and
   deleteReport.  A path is the sequence of its segments below reportsDir; a
   fileName or brandFolder of a request is the sequence of the segments
   between its '/' characters, <<>> when the parameter is absent. *)

MaxCalls == 2              \* fs.readFile and fs.unlink calls that go through in one behaviour

DotDot == <<".", ".">>
Dot == <<".">>

\* a file beside reportsDir ('./reports'): the application's .env
EnvFile == <<".", "e", "n", "v">>

\* path.join(this.reportsDir, ...): '.' and empty segments are dropped, '..'
\* takes back the segment before it; a path that begins with '..' has left
\* reportsDir
RECURSIVE PathJoin(_)
PathJoin(segs) ==
  IF segs = <<>> THEN <<>>
  ELSE LET front == PathJoin(SubSeq(segs, 1, Len(segs) - 1))
           last == segs[Len(segs)]
       IN IF last = <<>> \/ last = Dot THEN front
          ELSE IF last = DotDot
               THEN IF front # <<>> /\ front[Len(front)] # DotDot
                    THEN SubSeq(front, 1, Len(front) - 1)
                    ELSE Append(front, DotDot)
               ELSE Append(front, last)

\* the string the segments were cut from
RECURSIVE AsString(_)
AsString(segs) ==
  IF segs = <<>> THEN <<>>
  ELSE IF Len(segs) = 1 THEN segs[1]
  ELSE segs[1] \o <<"/">> \o AsString(Tail(segs))

\* what is on the disk: the reports the service wrote, the entries from
\* outside, and the directories
Nodes(fs, fl, strays) ==
  {[path |-> (IF f.brandFolder = RootFolder THEN <<>> ELSE <<f.brandFolder>>) \o <<f.fileName>>,
    created |-> f.created, isDirectory |-> FALSE] : f \in fl}
  \cup {[path |-> PathJoin(Append(o.parent, o.name)), created |-> o.created,
         isDirectory |-> o.isDirectory] : o \in strays}
  \cup {[path |-> PathJoin(<<d>>), created |-> 0, isDirectory |-> TRUE] : d \in fs}

\* filePath of a listing entry: path.join(brandPath, file), or itemPath
PathOfEntry(d) ==
  (IF d.brandFolder = Null THEN <<>> ELSE <<d.brandFolder>>) \o <<d.fileName>>

\* the orders in which fs.readdir may give the entries of reportsDir; the
\* root's own file of the name looked for stands at RootFolder's place
DirOrders ==
  {q \in [1..3 -> {RootFolder, AcmeFolder, OtherFolder}] :
     \A i, j \in 1..3 : i < j => q[i] # q[j]}

RankIn(order, d) ==
  IF \E i \in 1..Len(order) : order[i] = d
  THEN CHOOSE i \in 1..Len(order) : order[i] = d
  ELSE Len(order) + 1

\* getFilesList where readdir gives the root's entries in the given order:
\* for (const item of items) pushes them in that order and the sort, being
\* stable, keeps it among entries born at the same instant
getFilesListIn(order, fs, fl, strays) ==
  {q \in SortedByCreated(getFilesList(fs, fl, strays)) :
     \A i, j \in 1..Len(q) :
        (i < j /\ q[i].created = q[j].created)
          => RankIn(order, FolderOfEntry(q[i])) <= RankIn(order, FolderOfEntry(q[j]))}

NoPath == <<<<"<none>">>>>

\* let filePath of readFile and of deleteFile: joined from the parameters
\* when brandFolder is truthy, else the filePath of the first entry of the
\* listing with that fileName
ResolveFilePath(fileName, brandFolder, sortedFiles) ==
  IF brandFolder # <<>>
  THEN [path |-> PathJoin(brandFolder \o fileName), error |-> NoError]
  ELSE LET found == IF Len(fileName) = 1 THEN FindByName(sortedFiles, fileName[1]) ELSE <<>>
       IN IF found = <<>>
          THEN [path |-> NoPath, error |-> FileNotFound(AsString(fileName))]
          ELSE [path |-> PathOfEntry(found[1]), error |-> NoError]

EISDIR(syscall) ==
  [message |-> <<"EISDIR: illegal operation on a directory, ", syscall>>, status |-> 0,
   code |-> "EISDIR"]

\* the error of an fs call that needs a regular file at the path
FsErrorAt(nodes, path, syscall) ==
  IF \E n \in nodes : n.path = path /\ ~n.isDirectory THEN NoError
  ELSE IF \E n \in nodes : n.path = path THEN EISDIR(syscall)
  ELSE ENOENT(syscall)

NoNode == [path |-> NoPath, created |-> NaN, isDirectory |-> FALSE]

\* FileService.readFile: the path given to fs.readFile (NoPath when it was
\* not called), the error thrown, and the file whose content is returned
readFile(fs, fl, strays, fileName, brandFolder, sortedFiles) ==
  LET target == ResolveFilePath(fileName, brandFolder, sortedFiles)
      nodes == Nodes(fs, fl, strays)
      error == IF target.error # NoError THEN target.error
               ELSE FsErrorAt(nodes, target.path, "open")
  IN [path |-> target.path, error |-> error,
      content |-> IF error = NoError
                  THEN CHOOSE n \in nodes : n.path = target.path /\ ~n.isDirectory
                  ELSE NoNode]

\* a deleteFile that removes the brand folder with its last file
deleteFileAndEmptyFolder(fs, fl, strays, fileName, brandFolder, sortedFiles) ==
  LET target == ResolveFilePath(fileName, brandFolder, sortedFiles)
      error == IF target.error # NoError THEN target.error
               ELSE FsErrorAt(Nodes(fs, fl, strays), target.path, "unlink")
      Gone(n) == error = NoError /\ n.path = target.path
      left == {n \in Nodes({}, fl, strays) : ~Gone(n)}
  IN [path |-> target.path, error |-> error,
      folders |-> {d \in fs : d = RootFolder \/ \E n \in left : n.path[1] = d},
      files |-> {f \in fl : \A n \in Nodes({}, {f}, {}) : ~Gone(n)},
      others |-> {o \in strays : \A n \in Nodes({}, {}, {o}) : ~Gone(n)}]

\* FileService.deleteFile: the path given to fs.unlink, the error thrown,
\* and the directories, reports and outside entries left
deleteFileAtPath(fs, fl, strays, fileName, brandFolder, sortedFiles) ==
  LET target == ResolveFilePath(fileName, brandFolder, sortedFiles)
      error == IF target.error # NoError THEN target.error
               ELSE FsErrorAt(Nodes(fs, fl, strays), target.path, "unlink")
      Gone(n) == error = NoError /\ n.path = target.path
  IN [path |-> target.path, error |-> error,
      folders |-> fs,
      files |-> {f \in fl : \A n \in Nodes({}, {f}, {}) : ~Gone(n)},
      others |-> {o \in strays : \A n \in Nodes({}, {}, {o}) : ~Gone(n)}]

\* files.find(f => f.fileName === fileName &&
\*                 (brandFolder ? f.brandFolder === brandFolder : true))
FindInfo(sortedFiles, fileName, brandFolder) ==
  LET Matches(d) ==
        /\ Len(fileName) = 1 /\ d.fileName = fileName[1]
        /\ brandFolder # <<>> => (Len(brandFolder) = 1 /\ d.brandFolder = brandFolder[1])
  IN SelectSeq(sortedFiles, Matches)

NoInfo == [fileName |-> <<>>, brandName |-> <<>>, brandFolder |-> Null, created |-> NaN]
NoArgs == [fileName |-> <<>>, brandFolder |-> <<>>]

\* the last request was not one for the statistics
NoStats ==
  [totalFiles |-> -1, totalBrands |-> 0, totalSize |-> 0, averageSize |-> 0,
   brandBreakdown |-> {}]

ReadIdle ==
  /\ dirOrder = <<RootFolder, AcmeFolder, OtherFolder>>
  /\ rdPc = "idle"
  /\ rdArgs = NoArgs
  /\ rdContent = NoNode
  /\ rdInfo = NoInfo
  /\ rdError = NoError
  /\ fsLog = <<>>

\* the fileName and brandFolder parameters of the requests: names of the
\* tree, names that are nowhere, and ones that climb out of reportsDir
PathFileNames ==
  {<<f.fileName>> : f \in files} \cup {<<o.name>> : o \in others}
  \cup {<<MissingFileName>>, <<DotDot, EnvFile>>}
PathFolders == {<<>>, <<AcmeFolder>>, <<OtherFolder>>, <<DotDot>>, <<AcmeFolder, DotDot, DotDot>>}

FsCall(call, path) == [call |-> call, path |-> path]

\* the calls that went through: a file was read, or removed
LogCall(call, r) ==
  fsLog' = IF r.error # NoError THEN fsLog ELSE Append(fsLog, FsCall(call, r.path))

\* GET /files/:fileName -> brandService.getReport, up to the end of
\* await fileService.readFile(fileName, brandFolder)
GetReportRead(fileName, brandFolder, sortedFiles) ==
  /\ rdPc = "idle"
  /\ Len(fsLog) < MaxCalls
  /\ rdArgs' = [fileName |-> fileName, brandFolder |-> brandFolder]
  /\ LET r == readFile(folders, files, others, fileName, brandFolder, sortedFiles)
     IN /\ LogCall("readFile", r)
        /\ rdContent' = r.content
        /\ rdError' = r.error
        /\ rdPc' = IF r.error = NoError THEN "read" ELSE "thrown"
  /\ UNCHANGED <<dirOrder, rdInfo, others>>
  /\ UNCHANGED <<clientVars, sanVars, rtVars, treeVars, listVars, delVars, anVars, ehVars,
                 gateVars, promptVars, statVars, lateVars>>

\* getReport from await fileService.getFilesList() to its return or throw
GetReportInfo(sortedFiles) ==
  /\ rdPc = "read"
  /\ LET found == FindInfo(sortedFiles, rdArgs.fileName, rdArgs.brandFolder)
     IN IF found = <<>>
        THEN /\ rdPc' = "thrown"
             /\ rdError' = FileNotFound(AsString(rdArgs.fileName))
             /\ rdInfo' = rdInfo
        ELSE /\ rdPc' = "returned"
             /\ rdInfo' = found[1]
             /\ rdError' = rdError
  /\ UNCHANGED <<dirOrder, rdArgs, rdContent, fsLog, others>>
  /\ UNCHANGED <<clientVars, sanVars, rtVars, treeVars, listVars, delVars, anVars, ehVars,
                 gateVars, promptVars, statVars, lateVars>>

\* DELETE /files/:fileName -> brandService.deleteReport ->
\* fileService.deleteFile, handled while a getReport may be under way
DeleteReport(fileName, brandFolder, sortedFiles) ==
  /\ Len(fsLog) < MaxCalls
  /\ LET r == deleteFileAtPath(folders, files, others, fileName, brandFolder, sortedFiles)
     IN /\ LogCall("unlink", r)
        /\ folders' = r.folders
        /\ files' = r.files
        /\ others' = r.others
  /\ UNCHANGED <<clock, dirOrder, rdPc, rdArgs, rdContent, rdInfo, rdError>>
  /\ UNCHANGED <<clientVars, sanVars, rtVars, listVars, delVars, anVars, ehVars,
                 gateVars, promptVars, statVars, lateVars>>

\* copies of a report under its name in another folder and in the root, and
\* a note in the report's folder
CopiesOf(f) ==
  { {Stray(<<OtherFolder>>, f.fileName, FALSE)},
    {Stray(<<>>, f.fileName, FALSE)},
    {Stray(<<f.brandFolder>>, <<"n", ".", "m", "d">>, FALSE)} }

\* the tree is set up before the requests, the copies being made at one time
NoRequestYet == rdPc = "idle" /\ fsLog = <<>>

PathsNext ==
  \/ NoRequestYet /\ \E f \in files : \E entries \in CopiesOf(f) : PlaceEntries(entries)
  \/ NoRequestYet /\ Cardinality(others) = 1 /\ StoreTick
  \/ \E sortedFiles \in getFilesListIn(dirOrder, folders, files, others) :
       \E fileName \in PathFileNames, brandFolder \in PathFolders :
         GetReportRead(fileName, brandFolder, sortedFiles)
  \/ \E sortedFiles \in getFilesListIn(dirOrder, folders, files, others) :
       GetReportInfo(sortedFiles)
  \/ \E sortedFiles \in getFilesListIn(dirOrder, folders, files, others) :
       \E fileName \in PathFileNames, brandFolder \in PathFolders :
         DeleteReport(fileName, brandFolder, sortedFiles)

-----------------------------------------------------------------------------
(* FileService.getBrandsList and getStatistics.  stats.size of a file is
   given when the file is written: the length of the analysis text is the
   upstream's. *)

MaxSize == 2               \* stats.size of a file is in 1..MaxSize

\* files.reduce((sum, file) => sum + file.size, 0) over the files at the paths
RECURSIVE SumSizes(_, _)
SumSizes(sz, paths) ==
  IF paths = {} THEN 0
  ELSE LET p == CHOOSE x \in paths : TRUE
       IN sz[p] + SumSizes(sz, paths \ {p})

\* Math.floor in the place of Math.round
RoundDown(total, n) == total \div n

\* Math.round(total / n) for total >= 0 and n > 0: halves go up
Round(total, n) == (2 * total + n) \div (2 * n)

\* FileService.getBrandsList: one entry for every directory of reportsDir,
\* with the aggregates over what getBrandFiles gives for it
getBrandsList(fs, fl, strays, sz) ==
  {[brandName |-> d,
    fileCount |-> Cardinality(getBrandFiles(fl, strays, d)),
    totalSize |-> SumSizes(sz, {PathOfEntry(e) : e \in getBrandFiles(fl, strays, d)})] :
     d \in RootDirectories(fs, strays)}

\* FileService.getStatistics: totalFiles, totalBrands, totalSize,
\* averageSize and brandBreakdown of its result
getStatistics(fs, fl, strays, sz) ==
  LET listing == getFilesList(fs, fl, strays)
      brands == getBrandsList(fs, fl, strays, sz)
      totalSize == SumSizes(sz, {PathOfEntry(e) : e \in listing})
  IN [totalFiles |-> Cardinality(listing),
      totalBrands |-> Cardinality(brands),
      totalSize |-> totalSize,
      averageSize |-> IF Cardinality(listing) > 0
                      THEN Round(totalSize, Cardinality(listing)) ELSE 0,
      brandBreakdown |-> brands]

StatIdle ==
  /\ sizes = <<>>
  /\ stats = NoStats

\* the sizes after files of the given size have appeared at the paths
WithSizes(sz, paths, size) ==
  [p \in DOMAIN sz \cup paths |-> IF p \in paths THEN size ELSE sz[p]]

\* the sizes of what is left of the tree
SizesOf(sz, nodes) ==
  [p \in DOMAIN sz \cap {n.path : n \in nodes} |-> sz[p]]

\* the last name has no character that sanitizeBrandName keeps
StatsBrands == { <<"A", "c", "m", "e", "!", "!">>, <<"Z", "!">>, <<"!", "!">> }

\* a report directly in the root and a note inside a brand folder
StatsEntries ==
  { {Stray(<<>>, <<"r">> \o TxtSuffix, FALSE)},
    {Stray(<<AcmeFolder>>, <<"d", ".", "m", "d">>, FALSE)} }

\* saveAnalysisToFile(brandName, ...) writing content of the given length
SaveSized(name, size) ==
  /\ Cardinality(files) < MaxReports
  /\ LET requestId == RequestId(Cardinality(files) + 1)
     IN /\ folders' = FoldersAfterCreate(folders, name)
        /\ files' = FilesAfterWrite(files, name, requestId, clock)
        /\ sizes' = WithSizes(sizes, {PathJoin(<<sanitizeBrandName(name),
                                                 generateFileName(name, requestId, clock)>>)},
                              size)
  /\ stats' = NoStats
  /\ UNCHANGED <<clock, others>>
  /\ UNCHANGED <<clientVars, sanVars, rtVars, listVars, delVars, anVars, ehVars,
                 gateVars, promptVars, readVars, lateVars>>

\* entries of the given size appear in the tree from outside
PlaceSized(entries, size) ==
  /\ Cardinality(others) < MaxStrays
  /\ \A e \in entries : \A o \in others : <<o.parent, o.name>> # <<e.parent, e.name>>
  /\ others' = others \cup {[e EXCEPT !.created = clock] : e \in entries}
  /\ folders' = folders \cup {e.parent[1] : e \in {x \in entries : Len(x.parent) >= 1}}
  /\ sizes' = WithSizes(sizes, {PathJoin(Append(e.parent, e.name)) : e \in entries}, size)
  /\ stats' = NoStats
  /\ UNCHANGED <<files, clock>>
  /\ UNCHANGED <<clientVars, sanVars, rtVars, listVars, delVars, anVars, ehVars,
                 gateVars, promptVars, readVars, lateVars>>

\* DELETE /files/:fileName -> deleteReport -> fileService.deleteFile, on
\* the tree with its sizes
DeleteSized(fileName, brandFolder, sortedFiles) ==
  /\ LET r == deleteFileAtPath(folders, files, others, fileName, brandFolder, sortedFiles)
     IN /\ folders' = r.folders
        /\ files' = r.files
        /\ others' = r.others
        /\ sizes' = SizesOf(sizes, Nodes(r.folders, r.files, r.others))
        /\ contents' = [k \in {x \in DOMAIN contents : FileAt(r.files, x[1], x[2]) # {}} |->
                          contents[k]]
  /\ stats' = NoStats
  /\ UNCHANGED <<clock, savers, scanVars>>
  /\ UNCHANGED <<clientVars, sanVars, rtVars, listVars, delVars, anVars, ehVars,
                 gateVars, promptVars, readVars>>

\* GET /statistics -> fileService.getStatistics(), on a tree at rest
Statistics ==
  /\ stats' = getStatistics(folders, files, others, sizes)
  /\ UNCHANGED <<sizes, others>>
  /\ UNCHANGED <<clientVars, sanVars, rtVars, treeVars, listVars, delVars, anVars, ehVars,
                 gateVars, promptVars, readVars, lateVars>>

StatsNext ==
  \/ \E name \in StatsBrands, size \in {1, MaxSize} : SaveSized(name, size)
  \/ \E entries \in StatsEntries : PlaceSized(entries, 1)
  \/ \E sortedFiles \in getFilesListIn(dirOrder, folders, files, others) :
       \E fileName \in {<<n.path[Len(n.path)]>> : n \in Nodes({}, files, others)},
          brandFolder \in {<<>>, <<AcmeFolder>>} :
         DeleteSized(fileName, brandFolder, sortedFiles)
  \/ Statistics

-----------------------------------------------------------------------------
(* FileService.saveAnalysisToFile step by step: createBrandFolder's
   fs.access and fs.mkdir, then generateFileName and fs.writeFile, for saves
   that run side by side *)

MaxSavers == 2             \* saves in flight in one behaviour

\* A! and a? share the folder a and the file-name token a_; a_ has the
\* folder a_ and the same file-name token
SaveBrands == { <<"A", "!">>, <<"a", "?">>, <<"a", "_">> }

\* a uuid that shares the first segment of RequestId(1)
TwinId == <<"b", "9">> \o TwoDigits(1) \o <<"-", "5", "a", "a", "a">>

\* uuidv4() of the p-th save: the second save's may share its first segment
\* with the first save's
SaveRequestIds(p) == IF p = 2 THEN {RequestId(p), TwinId} ELSE {RequestId(p)}

\* a save: its position, its arguments, whether it called fs.mkdir, the
\* second and the file name of its write, and the error it threw
NoSaver == [pc |-> "idle", name |-> <<>>, requestId |-> <<>>, calledMkdir |-> FALSE,
            second |-> NaN, fileName |-> <<>>, error |-> NoError]

SaveIdle ==
  /\ savers = [p \in 1..MaxSavers |-> NoSaver]
  /\ contents = <<>>

\* no listing is under way
NoScan == [pc |-> "idle", items |-> {}, brand |-> <<>>, names |-> {}, found |-> {},
           error |-> NoError]

ScanIdle == scan = NoScan

notSave == <<clientVars, sanVars, rtVars, listVars, delVars, anVars, ehVars, gateVars,
             promptVars, walkVars, readVars, statVars, scanVars>>

EEXIST ==
  [message |-> <<"EEXIST: file already exists, mkdir">>, status |-> 0, code |-> "EEXIST"]

\* fs.mkdir(path) without {recursive: true}: EEXIST when the folder is there
mkdirNotRecursive(fs, folder) ==
  IF folder \in fs THEN [folders |-> fs, error |-> EEXIST]
  ELSE [folders |-> fs \cup {folder}, error |-> NoError]

\* fs.mkdir(brandFolderPath, {recursive: true}): no error when the folder
\* is there already
mkdir(fs, folder) == [folders |-> fs \cup {folder}, error |-> NoError]

\* saveAnalysisToFile(brandName, ..., {requestId}) is called
SaveBegin(p, name, requestId) ==
  /\ savers[p].pc = "idle"
  /\ \A q \in 1..(p - 1) : savers[q].pc # "idle"
  /\ \A q \in 1..MaxSavers : savers[q].requestId # requestId
  /\ savers' = [savers EXCEPT ![p] = [NoSaver EXCEPT !.pc = "access", !.name = name,
                                                      !.requestId = requestId]]
  /\ UNCHANGED <<treeVars, contents>>
  /\ UNCHANGED notSave

\* createBrandFolder: await fs.access(brandFolderPath)
SaveAccess(p) ==
  /\ savers[p].pc = "access"
  /\ savers' = [savers EXCEPT ![p].pc =
                  IF sanitizeBrandName(savers[p].name) \in folders THEN "write" ELSE "mkdir"]
  /\ UNCHANGED <<treeVars, contents>>
  /\ UNCHANGED notSave

\* createBrandFolder: await fs.mkdir(brandFolderPath, {recursive: true});
\* an error is logged and thrown again, by saveAnalysisToFile too
SaveMkdir(p) ==
  /\ savers[p].pc = "mkdir"
  /\ LET r == mkdir(folders, sanitizeBrandName(savers[p].name))
     IN /\ folders' = r.folders
        /\ savers' = [savers EXCEPT ![p].pc = IF r.error = NoError THEN "write" ELSE "thrown",
                                     ![p].calledMkdir = TRUE,
                                     ![p].error = r.error]
  /\ UNCHANGED <<files, clock, contents>>
  /\ UNCHANGED notSave

\* generateFileName at the present second, then await fs.writeFile(filePath, ...)
SaveWrite(p) ==
  /\ savers[p].pc = "write"
  /\ LET folder == sanitizeBrandName(savers[p].name)
         fileName == generateFileName(savers[p].name, savers[p].requestId, clock)
     IN IF folder \in folders
        THEN /\ files' = FilesAfterWrite(files, savers[p].name, savers[p].requestId, clock)
             /\ contents' = [k \in DOMAIN contents \cup {<<folder, fileName>>} |->
                               IF k = <<folder, fileName>> THEN p ELSE contents[k]]
             /\ savers' = [savers EXCEPT ![p].pc = "returned", ![p].second = clock,
                                          ![p].fileName = fileName]
        ELSE /\ savers' = [savers EXCEPT ![p].pc = "thrown", ![p].error = ENOENT("open")]
             /\ UNCHANGED <<files, contents>>
  /\ UNCHANGED <<folders, clock>>
  /\ UNCHANGED notSave

SaveNext ==
  \/ \E p \in 1..MaxSavers, name \in SaveBrands :
       \E requestId \in SaveRequestIds(p) : SaveBegin(p, name, requestId)
  \/ \E p \in 1..MaxSavers : SaveAccess(p)
  \/ \E p \in 1..MaxSavers : SaveMkdir(p)
  \/ \E p \in 1..MaxSavers : SaveWrite(p)
  \/ StoreTick
  \/ \E sortedFiles \in getFilesListIn(dirOrder, folders, files, others) :
       \E f \in files : DeleteSized(<<f.fileName>>, <<>>, sortedFiles)

-----------------------------------------------------------------------------
(* FileService.getFilesList step by step: fs.readdir of the root, then one
   fs.stat per item, getBrandFiles for a directory with one fs.stat per
   file, while deletes go on *)

ScanBrands == { <<"A", "c", "m", "e", "!", "!">>, <<"!", "!">> }

notScan == <<clientVars, sanVars, rtVars, treeVars, listVars, delVars, anVars, ehVars,
             gateVars, promptVars, walkVars, readVars, statVars, saveVars>>

\* fs.stat(path): the node at the path, NoNode when there is none
StatAt(nodes, path) ==
  IF \E n \in nodes : n.path = path THEN CHOOSE n \in nodes : n.path = path ELSE NoNode

\* getFilesList, one turn of for (const item of items): await fs.stat(itemPath)
\* outside any inner try, so its rejection ends the call in the outer catch;
\* a directory is handed to getBrandFiles (its readdir and .txt filter), a
\* .txt file is pushed as a 'Legacy' entry
AfterRootStat(sc, item, nodes, txtNames) ==
  LET st == StatAt(nodes, <<item>>)
      rest == sc.items \ {item}
  IN IF st = NoNode THEN [sc EXCEPT !.pc = "thrown", !.error = ENOENT("stat")]
     ELSE IF st.isDirectory
     THEN IF txtNames = {} THEN [sc EXCEPT !.items = rest]
          ELSE [sc EXCEPT !.pc = "brand", !.brand = item, !.names = txtNames, !.items = rest]
     ELSE IF EndsWithTxt(item)
     THEN [sc EXCEPT !.items = rest,
                     !.found = @ \cup {[fileName |-> item, brandName |-> Legacy,
                                        brandFolder |-> Null, created |-> st.created]}]
     ELSE [sc EXCEPT !.items = rest]

\* getBrandFiles, one turn of for (const file of txtFiles): fs.stat inside
\* try/catch, a rejection is logged and the file left out
AfterBrandStat(sc, name, nodes) ==
  LET st == StatAt(nodes, <<sc.brand, name>>)
      rest == sc.names \ {name}
      next == [sc EXCEPT !.names = rest, !.pc = IF rest = {} THEN "items" ELSE "brand"]
  IN IF st = NoNode THEN next
     ELSE [next EXCEPT !.found = @ \cup {[fileName |-> name, brandName |-> sc.brand,
                                          brandFolder |-> sc.brand, created |-> st.created]}]

\* getFilesList: const items = await fs.readdir(this.reportsDir)
ScanReaddir ==
  /\ scan.pc = "idle"
  /\ scan' = [NoScan EXCEPT !.pc = "items",
                             !.items = {n.path[1] : n \in {x \in Nodes(folders \ {RootFolder}, files, others) :
                                                             Len(x.path) = 1}}]
  /\ UNCHANGED notScan

ScanRootStat(item) ==
  /\ scan.pc = "items"
  /\ item \in scan.items
  /\ scan' = AfterRootStat(scan, item, Nodes(folders \ {RootFolder}, files, others),
                            {e.fileName : e \in getBrandFiles(files, others, item)})
  /\ UNCHANGED notScan

ScanBrandStat(name) ==
  /\ scan.pc = "brand"
  /\ name \in scan.names
  /\ scan' = AfterBrandStat(scan, name, Nodes(folders \ {RootFolder}, files, others))
  /\ UNCHANGED notScan

\* the sort and return fileDetails
ScanReturn ==
  /\ scan.pc = "items"
  /\ scan.items = {}
  /\ scan' = [scan EXCEPT !.pc = "returned"]
  /\ UNCHANGED notScan

ScanNext ==
  \/ scan.pc = "idle" /\ \E name \in ScanBrands : SaveSized(name, 1)
  \/ scan.pc = "idle" /\ PlaceSized({Stray(<<>>, <<"r">> \o TxtSuffix, FALSE)}, 1)
  \/ ScanReaddir
  \/ \E item \in scan.items : ScanRootStat(item)
  \/ \E name \in scan.names : ScanBrandStat(name)
  \/ ScanReturn
  \/ \E sortedFiles \in getFilesListIn(dirOrder, folders, files, others) :
       \E e \in getFilesList(folders, files, others) :
         DeleteSized(<<e.fileName>>, <<>>, sortedFiles)

-----------------------------------------------------------------------------
(* Specifications *)

\* the analysis client alone
InitClient == ClientInit /\ SanIdle /\ RtIdle /\ TreeInit /\ ListInit /\ AnInit /\ DelInit /\ EhIdle /\ GateIdle /\ PromptIdle /\ WalkIdle /\ ReadIdle /\ StatIdle /\ SaveIdle /\ ScanIdle

SpecClient == InitClient /\ [][ClientNext]_vars

\* sanitizeBrandName alone
InitSanitize == SanInit /\ ClientInit /\ RtIdle /\ TreeInit /\ ListInit /\ AnInit /\ DelInit /\ EhIdle /\ GateIdle /\ PromptIdle /\ WalkIdle /\ ReadIdle /\ StatIdle /\ SaveIdle /\ ScanIdle

SpecSanitize == InitSanitize /\ [][SanNext]_vars

\* one report saved and read back
InitRoundTrip == RtInit /\ ClientInit /\ SanIdle /\ TreeInit /\ ListInit /\ AnInit /\ DelInit /\ EhIdle /\ GateIdle /\ PromptIdle /\ WalkIdle /\ ReadIdle /\ StatIdle /\ SaveIdle /\ ScanIdle

SpecRoundTrip == InitRoundTrip /\ [][RtNext]_vars

\* the report store: saves, the clock, and listings
InitStore == TreeInit /\ ListInit /\ ClientInit /\ SanIdle /\ RtIdle /\ AnInit /\ DelInit /\ EhIdle /\ GateIdle /\ PromptIdle /\ WalkIdle /\ ReadIdle /\ StatIdle /\ SaveIdle /\ ScanIdle

SpecStore == InitStore /\ [][StoreNext]_vars

\* one request to an analysis route
InitAnalyze ==
  /\ AnInit /\ (TreeInit \/ TreeWithOneReport) /\ ListInit
  /\ ClientInit /\ SanIdle /\ RtIdle /\ DelInit /\ EhIdle /\ GateIdle /\ PromptIdle /\ WalkIdle /\ ReadIdle /\ StatIdle /\ SaveIdle /\ ScanIdle

SpecAnalyze == InitAnalyze /\ [][AnalyzeNext]_vars

\* one request that may end in the global error handler
InitErrors ==
  /\ EhIdle /\ (TreeInit \/ TreeWithOneReport) /\ ListInit /\ DelInit
  /\ ClientInit /\ SanIdle /\ RtIdle /\ AnInit /\ GateIdle /\ PromptIdle /\ WalkIdle /\ ReadIdle /\ StatIdle /\ SaveIdle /\ ScanIdle

SpecErrors == InitErrors /\ [][ErrorsNext]_vars

\* one request through auth and validation into its handler
InitGate ==
  /\ GateIdle /\ AnInit /\ (TreeInit \/ TreeWithOneReport) /\ ListInit /\ DelInit
  /\ ClientInit /\ SanIdle /\ RtIdle /\ EhIdle /\ PromptIdle /\ WalkIdle /\ ReadIdle /\ StatIdle /\ SaveIdle /\ ScanIdle

SpecGate == InitGate /\ [][GateNext]_vars

\* the prompt builder alone
InitPrompt ==
  /\ PromptIdle /\ GateIdle /\ AnInit /\ TreeInit /\ ListInit /\ DelInit
  /\ ClientInit /\ SanIdle /\ RtIdle /\ EhIdle /\ WalkIdle /\ ReadIdle /\ StatIdle /\ SaveIdle /\ ScanIdle

SpecPrompt == InitPrompt /\ [][PromptNext]_vars

\* listings of a tree that holds one report of the service and entries from
\* outside
InitWalk ==
  /\ WalkIdle /\ TreeWithOneReport /\ ListInit /\ DelInit /\ PromptIdle /\ GateIdle /\ ReadIdle /\ StatIdle /\ SaveIdle /\ ScanIdle
  /\ AnInit /\ ClientInit /\ SanIdle /\ RtIdle /\ EhIdle

SpecWalk == InitWalk /\ [][WalkNext]_vars

\* GET and DELETE of files in a tree that holds one report, beside the
\* application's .env, for every order readdir may give
InitPaths ==
  /\ TreeWithOneReport
  /\ others = {Stray(<<DotDot>>, EnvFile, FALSE)}
  /\ dirOrder \in DirOrders
  /\ rdPc = "idle" /\ rdArgs = NoArgs /\ rdContent = NoNode /\ rdInfo = NoInfo
  /\ rdError = NoError /\ fsLog = <<>>
  /\ ListInit /\ DelInit /\ PromptIdle /\ GateIdle /\ AnInit /\ ClientInit /\ SanIdle
  /\ RtIdle /\ EhIdle /\ StatIdle /\ SaveIdle /\ ScanIdle

SpecPaths == InitPaths /\ [][PathsNext]_vars

\* saves, entries from outside, deletes and statistics calls, from an empty
\* report root
InitStats ==
  /\ TreeInit /\ WalkIdle /\ StatIdle /\ ReadIdle /\ ListInit /\ DelInit /\ PromptIdle
  /\ SaveIdle /\ ScanIdle
  /\ GateIdle /\ AnInit /\ ClientInit /\ SanIdle /\ RtIdle /\ EhIdle

SpecStats == InitStats /\ [][StatsNext]_vars

\* saves side by side
InitSave ==
  /\ TreeInit /\ SaveIdle /\ ScanIdle /\ WalkIdle /\ StatIdle /\ ReadIdle /\ ListInit /\ DelInit
  /\ PromptIdle /\ GateIdle /\ AnInit /\ ClientInit /\ SanIdle /\ RtIdle /\ EhIdle

SpecSave == InitSave /\ [][SaveNext]_vars

\* a listing while deletes go on
InitScan ==
  /\ TreeInit /\ ScanIdle /\ SaveIdle /\ WalkIdle /\ StatIdle /\ ReadIdle /\ ListInit /\ DelInit
  /\ PromptIdle /\ GateIdle /\ AnInit /\ ClientInit /\ SanIdle /\ RtIdle /\ EhIdle

SpecScan == InitScan /\ [][ScanNext]_vars

-----------------------------------------------------------------------------
(* Claims about the Analysis Client, checked under SpecClient *)

followUps == created - 1

\* C1: once the primary response is in, a truncated (max_tokens), non-empty
\* response without the closing marker has caused exactly one follow-up
\* request, a complete response (another stop reason, or the marker present)
\* has caused none, and no call ever issues more than two upstream requests.
C1_FollowUpOnlyWhenTruncated ==
  /\ created <= 2
  /\ cPc \in {"continuation", "returned"} =>
       /\ ( /\ response.stop_reason = "max_tokens"
            /\ response.text # <<>>
            /\ ~Includes(response.text, ClosingMarker(cMethod)) ) => followUps = 1
       /\ ( \/ response.stop_reason # "max_tokens"
            \/ Includes(response.text, ClosingMarker(cMethod)) ) => followUps = 0

C1_Witness ==
  /\ cPc = "returned"
  /\ response.stop_reason = "max_tokens"
  /\ response.text # <<>>
  /\ ~Includes(response.text, ClosingMarker(cMethod))
  /\ created = 2

\* C2 as stated: after a successful follow-up the returned text is the primary
\* text followed by the follow-up text, and each token count is the sum of
\* the two calls' counts -- for every Analysis Client method.
C2_Original ==
  (cPc = "returned" /\ continuationResponse.kind = "message") =>
     /\ IsPrefix(response.text, analysis)
     /\ IsSuffix(continuationResponse.text, analysis)
     /\ totalInputTokens = response.input_tokens + continuationResponse.input_tokens
     /\ totalOutputTokens = response.output_tokens + continuationResponse.output_tokens
     /\ totalTokens = totalInputTokens + totalOutputTokens

\* C2 amended: in analyzeBrandComprehensive, after a successful follow-up the
\* returned text is the primary text, a blank line, then the follow-up text,
\* and the input, output and total token counts are the sums over both calls.
C2_ComprehensiveConcatenatesAndSums ==
  (cPc = "returned" /\ continuationResponse.kind = "message"
     /\ cMethod = "analyzeBrandComprehensive") =>
     /\ analysis = response.text \o <<"\n\n">> \o continuationResponse.text
     /\ IsPrefix(response.text, analysis)
     /\ totalInputTokens = response.input_tokens + continuationResponse.input_tokens
     /\ totalOutputTokens = response.output_tokens + continuationResponse.output_tokens
     /\ totalTokens = response.input_tokens + continuationResponse.input_tokens
                      + response.output_tokens + continuationResponse.output_tokens

C2_Witness ==
  /\ cPc = "returned"
  /\ cMethod = "analyzeBrandComprehensive"
  /\ continuationResponse.kind = "message"
  /\ continuationResponse.text # <<>>
  /\ Len(analysis) > Len(response.text)

\* C3: when the follow-up fails, the call has returned (nothing is thrown) with
\* the primary response's text and token counts, and two requests were made
\* in all; a returned call is final, so no further request follows.
C3_FollowUpFailureSwallowed ==
  continuationResponse.kind \in {"error", "emptyContent"} =>
     /\ cPc = "returned"
     /\ cError = NoError
     /\ analysis = response.text
     /\ totalInputTokens = response.input_tokens
     /\ totalOutputTokens = response.output_tokens
     /\ totalTokens = response.input_tokens + response.output_tokens
     /\ created = 2
     /\ ~ENABLED ClientNext

C3_Witness ==
  /\ cPc = "returned"
  /\ continuationResponse.kind = "error"
  /\ continuationResponse.status = 429
  /\ analysis = response.text

-----------------------------------------------------------------------------
(* Claims about sanitizeBrandName, checked under SpecSanitize *)

\* [a-z0-9_-]
FolderSafeChars == Range(LowerLetters) \cup Digits \cup {"_", "-"}

\* C7: for every brand name accepted by validation, sanitizing the sanitized
\* token again changes nothing, and the token has no upper-case letter, at most
\* 50 characters, and only characters of [a-z0-9_-].
C7_SanitizeIdempotentAndSafe ==
  /\ sanPc \in {"sanitized", "resanitized"} =>
       /\ Len(sanitized) <= 50
       /\ \A i \in 1..Len(sanitized) :
            ~IsUpper(sanitized[i]) /\ sanitized[i] \in FolderSafeChars
  /\ sanPc = "resanitized" => resanitized = sanitized

C7_Witness ==
  /\ sanPc = "resanitized"
  /\ Len(brandName) > 50
  /\ Len(sanitized) = 50
  /\ \E i \in 1..Len(brandName) : IsUpper(brandName[i])
  /\ \E i \in 1..Len(brandName) : brandName[i] = "!"
  /\ resanitized = sanitized

-----------------------------------------------------------------------------
(* Claims about the saved report's content, checked under SpecRoundTrip *)

rtHeader ==
  IF rtArgs.version = "cleaned"
  THEN RenderHeader(rtArgs.formData.brandName, MetadataFor(rtArgs.analysisText), rtArgs.formData)
  ELSE RenderHeaderV2(rtArgs.formData.brandName, MetadataFor(rtArgs.analysisText), rtArgs.formData)

rtFooter ==
  IF rtArgs.version = "cleaned"
  THEN RenderFooter(rtArgs.now, rtArgs.formData)
  ELSE RenderFooterV2(rtArgs.now, rtArgs.formData)

\* what lies between the rendered header and the rendered footer
rtBody == SubSeq(rtContent, Len(rtHeader) + 1, Len(rtContent) - Len(rtFooter))

FramedByHeaderAndFooter ==
  /\ Len(rtContent) >= Len(rtHeader) + Len(rtFooter)
  /\ IsPrefix(rtHeader, rtContent)
  /\ IsSuffix(rtFooter, rtContent)

\* letters separated by single blanks or single line breaks
IsPlainText(t) ==
  /\ \A i \in 1..Len(t) : t[i] \in {"a", " ", "\n"}
  /\ \A i \in 1..Len(t) : t[i] \in {" ", "\n"} =>
        i > 1 /\ i < Len(t) /\ t[i - 1] = "a" /\ t[i + 1] = "a"

\* C8 as stated: the content read back contains the saved analysis text
\* unchanged, as one contiguous piece between the header and the footer.
C8_Original ==
  rtPc = "read" => FramedByHeaderAndFooter /\ Includes(rtBody, rtArgs.analysisText)

\* C8 amended: the content read back is the rendered header, then the analysis
\* text as cleaned by cleanAnalysisText, then the rendered footer; the text is
\* there unchanged when it is plain (letters with single blanks or single
\* line breaks between them), and always in the earlier createFileContent.
C8_RoundTripOfCleanedText ==
  rtPc = "read" =>
    /\ FramedByHeaderAndFooter
    /\ rtArgs.version = "cleaned" => rtBody = cleanAnalysisText(rtArgs.analysisText)
    /\ (rtArgs.version = "v2" \/ IsPlainText(rtArgs.analysisText)) =>
          rtBody = rtArgs.analysisText

C8_Witness ==
  /\ rtPc = "read"
  /\ rtArgs.version = "cleaned"
  /\ rtArgs.analysisText = <<"a", "\n", "a", " ", "a">>
  /\ rtBody = rtArgs.analysisText

-----------------------------------------------------------------------------
(* Claims about the report store's listing, checked under SpecStore *)

\* the reports a listing returned
Returned == {listed[i] : i \in 1..Len(listed)}

HasListed == listed # NotListed

\* two saved reports whose brand names differ and sanitize to one token
SameTokenPairs ==
  {p \in files \X files :
     /\ p[1].savedFor # p[2].savedFor
     /\ sanitizeBrandName(p[1].savedFor) = sanitizeBrandName(p[2].savedFor)}

\* C9 as stated: two reports saved under different brand names that sanitize
\* to the same token are in the same brand folder, and a listing filtered by
\* either of the two original spellings returns both of them.
C9_Original ==
  HasListed /\ listFilters.fromDate = Absent /\ listFilters.toDate = Absent =>
    \A p \in SameTokenPairs :
      /\ p[1].brandFolder = p[2].brandFolder
      /\ listFilters.brandName \in {p[1].savedFor, p[2].savedFor} =>
            {FileDetails(p[1]), FileDetails(p[2])} \subseteq Returned

\* a supplied date that is a date
Bound(str) == ParseDate(str)
IsSupplied(str) == str # Absent
IsValidDate(str) == ParseDate(str) # NaN

\* C10: a listing with fromDate and/or toDate returns exactly the reports
\* (among those the brandName filter lets through) created at a time t with
\* fromDate <= t and t <= toDate, each bound applied only when supplied and
\* both inclusive; a supplied bound that is not a date leaves no report; the
\* result is a list without repetitions, possibly empty.
C10_DateBoundsInclusive ==
  HasListed =>
    /\ Len(listed) = Cardinality(Returned)
    /\ \A f \in files :
         FileDetails(f) \in Returned <=>
           /\ IsSupplied(listFilters.brandName) =>
                MatchesBrandName(files, listFilters, FileDetails(f))
           /\ IsSupplied(listFilters.fromDate) =>
                IsValidDate(listFilters.fromDate)
                /\ Bound(listFilters.fromDate) <= f.created
           /\ IsSupplied(listFilters.toDate) =>
                IsValidDate(listFilters.toDate)
                /\ f.created <= Bound(listFilters.toDate)
    /\ \A d \in Returned : \E f \in files : d = FileDetails(f)

\* a report created exactly at both bounds is returned, an earlier one is not
C10_Witness ==
  /\ HasListed
  /\ listFilters = [brandName |-> Absent, fromDate |-> IsoDate(1), toDate |-> IsoDate(1)]
  /\ \E f \in files : f.created = 0
  /\ \E f \in files : f.created = 1 /\ Returned = {FileDetails(f)}

-----------------------------------------------------------------------------
(* Claims about the orchestrator and the bulk route, checked under SpecAnalyze *)

\* the analysis client failed for the brand started last, and the
\* orchestrator has finished with it
ClientFailed == raised # NoError /\ phase = "done"

\* C4: when the analysis client call fails, the report tree is as it was when
\* the orchestrator was entered (no folder, no file created), and the error
\* thrown to the caller is the error the analysis client raised.
C4_ClientFailureLeavesTreeAndError ==
  ClientFailed =>
    /\ <<folders, files>> = treeAtStart
    /\ thrown = raised

C4_Witness ==
  /\ ClientFailed
  /\ request.route = "comprehensive"
  /\ files # {}
  /\ thrown = MapClientError(429, ProviderMessage(429))
  /\ httpResponse.error = raised.message

\* number of entries of a list that carry the brand name
CountOf(list, name) == Cardinality({k \in 1..Len(list) : list[k].brandName = name})
Occurrences(brands, name) == Cardinality({k \in 1..Len(brands) : brands[k] = name})

\* an accepted bulk request that has been answered
BulkAnswered ==
  /\ anPc = "responded"
  /\ request.route = "bulk"
  /\ request.isArray
  /\ Len(request.brands) \in 1..MaxBulkBrands

\* C5: an accepted bulk request (1 to 10 brands) is answered with a success
\* envelope whatever failed; every brand was attempted exactly once; every
\* brand is in exactly one of successful and failed, failed entries carrying
\* the brand's name and an error message; successful + failed = total = the
\* number of brands.
C5_BulkCollectsEveryBrand ==
  BulkAnswered =>
    /\ httpResponse.status = 200 /\ httpResponse.success
    /\ callLog = [k \in 1..Len(request.brands) |-> k]
    /\ \A name \in BrandNames :
         CountOf(httpResponse.successful, name) + CountOf(httpResponse.failed, name)
           = Occurrences(request.brands, name)
    /\ \A k \in 1..Len(httpResponse.failed) :
         /\ httpResponse.failed[k].error # <<>>
         /\ httpResponse.failed[k].status = "failed"
    /\ httpResponse.nSuccessful = Len(httpResponse.successful)
    /\ httpResponse.nFailed = Len(httpResponse.failed)
    /\ httpResponse.total = Len(request.brands)
    /\ httpResponse.nSuccessful + httpResponse.nFailed = httpResponse.total

\* the first brand's upstream call failed, the second brand was still
\* analyzed and its report saved
C5_Witness ==
  /\ BulkAnswered
  /\ Len(request.brands) = 2
  /\ request.brands[1] # request.brands[2]
  /\ Len(httpResponse.failed) = 1
  /\ httpResponse.failed[1].brandName = request.brands[1]
  /\ httpResponse.failed[1].error = ProviderMessage(503)
  /\ Len(httpResponse.successful) = 1
  /\ httpResponse.successful[1].brandName = request.brands[2]
  /\ \E f \in files : f.savedFor = request.brands[2]

\* C6: within one bulk request at most one analysis is in flight at any
\* time, the brands are started in input order, and a brand is started only
\* when every brand before it has finished (saved or failed).
C6_BulkIsSequential ==
  request.route = "bulk" =>
    /\ Cardinality(inFlight) <= 1
    /\ callLog = [k \in 1..Len(callLog) |-> k]
    /\ phase \in {"upstream", "saving"} =>
          /\ inFlight = {idx}
          /\ Len(results) + Len(errors) = idx - 1

C6_Witness ==
  /\ request.route = "bulk"
  /\ idx = 2
  /\ phase = "saving"
  /\ inFlight = {2}
  /\ Len(results) = 1
  /\ \E f \in files : f.savedFor = request.brands[1]

-----------------------------------------------------------------------------
(* Claims about deleteFile, checked under SpecStore *)

\* the report a deleteFile call is aimed at: the file of that name in the
\* given folder, or any file of that name when no folder is given
Targets(fl, fileName, brandFolder) ==
  {f \in fl : f.fileName = fileName /\ (brandFolder # Absent => f.brandFolder = brandFolder)}

IsNotFoundError(e) ==
  e.code = "ENOENT" \/ (e.message # <<>> /\ e.message[1] = "File not found: ")

\* C11: a deleteFile call for a file name that is not there, with or without
\* a brand folder, throws a not-found error, does not return true, and
\* leaves the report tree as it was.
C11_DeleteOfAbsentFileFails ==
  [][(delResult'.called /\ ~delResult.called
      /\ Targets(files, delResult'.fileName, delResult'.brandFolder) = {})
     => /\ ~delResult'.returned
        /\ IsNotFoundError(delResult'.error)
        /\ files' = files
        /\ folders' = folders]_vars

\* a report exists in folder acme; a delete aimed at another folder failed
C11_Witness ==
  /\ delResult.called
  /\ delResult.brandFolder = MissingFolder
  /\ \E f \in files : f.fileName = delResult.fileName
  /\ ~delResult.returned
  /\ delResult.error = NoSuchFile

-----------------------------------------------------------------------------
(* Claims about error statuses and error kinds, checked under SpecErrors *)

\* the request failed in the provider call
ProviderFailed == providerError # NoProviderError

\* the request named a report that is not in the tree
ReportAbsent ==
  /\ ehRequest.route \in FileRoutes
  /\ Targets(files, ehRequest.fileName, ehRequest.brandFolder) = {}

\* the status the error taxonomy assigns to a provider failure
TaxonomyStatus(status) ==
  CASE status \in {429, 401, 400} -> status
    [] status >= 500 -> 503
    [] OTHER -> 500

\* C12 as stated: an answered request for an absent report has status 404; a
\* request that failed in the provider has the status of the failure's kind
\* (429, 401, 400, and 503 for a provider server error); every other failed
\* request of a route has status 500.
C12_Original ==
  (ehPc = "answered" /\ ~ehResponse.success /\ ehRequest.route # "unmatched") =>
     ehResponse.status =
       IF ReportAbsent THEN 404
       ELSE IF ProviderFailed THEN TaxonomyStatus(providerError.status)
       ELSE 500

\* the kind the error taxonomy assigns to a provider status
TaxonomyKind(status) ==
  CASE status = 429 -> "rate_limited"
    [] status = 401 -> "unauthorized"
    [] status = 400 -> "bad_request"
    [] status >= 500 -> "upstream_unavailable"
    [] OTHER -> "unknown"

\* the kind an error thrown by the client is read as: by its message when
\* the client worded it, by its status when it is the provider's own error
ErrorKind(e) ==
  IF Len(e.message) >= 5 /\ SubSeq(e.message, 1, 4) = <<"Claude", " ", "API", " ">>
  THEN CASE e.message[5] = "rate limit" -> "rate_limited"
         [] e.message[5] = "key" -> "unauthorized"
         [] e.message[5] = "bad request: " -> "bad_request"
         [] e.message[5] = "server error. Please try again later." -> "upstream_unavailable"
         [] OTHER -> "unknown"
  ELSE TaxonomyKind(e.status)

\* C13 as stated: the error the client throws for a failed primary call is of
\* the kind its provider status determines (429 rate_limited, 401
\* unauthorized, 400 bad_request, any 5xx upstream_unavailable, otherwise
\* unknown), and the primary call was made once.
C13_Original ==
  (ehPc \in {"thrown", "answered"} /\ ProviderFailed) =>
     /\ ErrorKind(ehErr) = TaxonomyKind(providerError.status)
     /\ attempts = 1

-----------------------------------------------------------------------------
(* Claims about authentication and validation, checked under SpecGate *)

\* the request carries the configured key in one of the two headers
CarriesKey(r) ==
  r.authorization = BearerPrefix \o ConfigApiKey \/ r.xApiKey = ConfigApiKey

\* the request's Bearer credential is the key, or it has no Bearer
\* credential and its x-api-key header is the key
CarriesKeyFirst(r) ==
  \/ r.authorization = BearerPrefix \o ConfigApiKey
  \/ ~IsPrefix(BearerPrefix, r.authorization) /\ r.xApiKey = ConfigApiKey

HandlerEntered == anPc # "idle" \/ gatePc = "served"

Denied == gatePc = "rejected" /\ gateResponse.status = 401

AuthDone == gatePc \notin {"idle", "arrived"}

\* C14 as stated: a request that does not carry the key as Bearer credential
\* or as x-api-key header is answered 401 and no handler is entered; a
\* request that carries the key in either header is not answered 401.
C14_Original ==
  AuthDone =>
     /\ ~CarriesKey(gateRequest) => (Denied /\ ~HandlerEntered)
     /\ CarriesKey(gateRequest) => ~Denied

\* C14 amended: a request that does not carry the key in either header is
\* answered 401 and no handler is entered; the request is let through exactly
\* when its Bearer credential is the key, or it has no Bearer credential and
\* its x-api-key header is the key. A wrong or empty Bearer credential is
\* answered 401 whatever the x-api-key header holds.
C14_BearerCredentialDecides ==
  /\ AuthDone =>
       /\ ~CarriesKey(gateRequest) => (Denied /\ ~HandlerEntered)
       /\ Denied <=> ~CarriesKeyFirst(gateRequest)
  /\ HandlerEntered => CarriesKeyFirst(gateRequest)

\* a wrong Bearer credential next to the right x-api-key header was answered 401
C14_Witness ==
  /\ Denied
  /\ gateRequest.authorization = BearerPrefix \o WrongKey
  /\ gateRequest.xApiKey = ConfigApiKey
  /\ gateResponse.error = <<"Invalid API key">>

\* the body fails the route's input validation: its schema, or the checks
\* the /bulk handler makes on the brands array
FailsValidation(req) ==
  \/ SchemaErrors(req) # {}
  \/ /\ req.route = "bulk"
     /\ (~req.isArray \/ Len(req.brands) = 0 \/ Len(req.brands) > MaxBulkBrands)

-----------------------------------------------------------------------------
(* Claims about where a report is saved, checked under SpecStore *)

\* <timestamp>_<shortId>.txt of a report born at t for one of the request ids
NameTails(t) ==
  {FormatTimestamp(t) \o <<"_">> \o FirstSegment(RequestId(k)) \o TxtSuffix :
     k \in 1..(MaxReports + 1)}

-----------------------------------------------------------------------------
(* Claims about the /bulk checks, checked under SpecAnalyze *)

BadBulk(req) ==
  /\ req.route = "bulk"
  /\ (~req.isArray \/ Len(req.brands) = 0 \/ Len(req.brands) > MaxBulkBrands)

\* C17: once a bulk request whose brands is not an array, is empty or has
\* more than 10 entries is received, it is answered 400 with success false
\* and an error text, and no step starts a brand's analysis: no request id,
\* no upstream call, no result, no change of the report tree.
C17_BadBulkRejected ==
  [][BadBulk(request') =>
       /\ anPc' = "responded"
       /\ httpResponse'.status = 400
       /\ ~httpResponse'.success
       /\ httpResponse'.error # <<>>
       /\ idx' = 0 /\ uuids' = 0 /\ callLog' = <<>> /\ inFlight' = {}
       /\ results' = <<>> /\ errors' = <<>>
       /\ folders' = folders /\ files' = files]_vars

\* a request with eleven brands was answered 400
C17_Witness ==
  /\ anPc = "responded"
  /\ request.route = "bulk"
  /\ request.isArray
  /\ Len(request.brands) = MaxBulkBrands + 1
  /\ httpResponse.status = 400
  /\ httpResponse.error = <<"Maximum 10 brands allowed per bulk request">>

-----------------------------------------------------------------------------
(* Claims about the prompt builder, checked under SpecPrompt *)

\* the sub-template heading of an optional field, for the client's own
\* values and for values the model is to come up with
ClientHeading(field) ==
  CASE field = "competitors" -> "CLIENT-SPECIFIED COMPETITORS TO ANALYZE:"
    [] field = "topics" -> "CLIENT-SPECIFIED KEY TOPICS TO FOCUS ON:"
    [] field = "personas" -> "CLIENT-SPECIFIED TARGET PERSONAS:"
    [] field = "prompts" -> "CLIENT-SPECIFIED TEST PROMPTS:"

SynthesizeHeading(field) ==
  CASE field = "competitors" -> "IDENTIFY AND ANALYZE TOP 5 COMPETITORS:"
    [] field = "topics" -> "IDENTIFY 3-4 CORE TOPICS BASED ON BRAND ANALYSIS:"
    [] field = "personas" -> "DEVELOP COMPREHENSIVE IDEAL CUSTOMER PROFILES:"
    [] field = "prompts" -> "DEVELOP REALISTIC TEST PROMPTS:"

OptionalFields == {"competitors", "topics", "personas", "prompts"}

\* the field is present in the form: a non-empty list, or persona text that
\* is non-empty after trimming
IsPresent(formData, field) ==
  IF field = "personas"
  THEN Trim(formData.personas) # <<>>
  ELSE Len(formData[field]) > 0

\* C18: the prompt built twice from one form is the same prompt, and for each
\* of competitors, topics, personas and prompts the prompt holds the
\* client-supplied sub-template exactly when that field is present and the
\* synthesize sub-template exactly when it is absent, whatever the other
\* three fields hold.
C18_PromptSectionsByField ==
  /\ prPc = "rebuilt" => promptAgain = prompt
  /\ prPc \in {"built", "rebuilt"} =>
       \A field \in OptionalFields :
          /\ Includes(prompt, <<ClientHeading(field)>>) <=> IsPresent(prFormData, field)
          /\ Includes(prompt, <<SynthesizeHeading(field)>>) <=> ~IsPresent(prFormData, field)

\* blank personas next to supplied competitors and no topics
C18_Witness ==
  /\ prPc = "rebuilt"
  /\ prFormData.personas = <<" ">>
  /\ Len(prFormData.competitors) = 2
  /\ prFormData.topics = <<>>
  /\ Includes(prompt, <<"DEVELOP COMPREHENSIVE IDEAL CUSTOMER PROFILES:">>)
  /\ Includes(prompt, <<"CLIENT-SPECIFIED COMPETITORS TO ANALYZE:", "\n", "1", ". ", "", "Globex">>)

-----------------------------------------------------------------------------
(* Claims about the listing, checked under SpecWalk *)

\* C19: whatever the filters, any two consecutive entries of a returned list
\* are in descending order of creation time, brand folders and root files
\* alike.
C19_ListedNewestFirst ==
  listed # NotListed =>
     \A i \in 1..(Len(listed) - 1) : listed[i].created >= listed[i + 1].created

\* a root report born later is listed ahead of the brand folder's report
C19_Witness ==
  /\ listed # NotListed
  /\ Len(listed) >= 2
  /\ listed[1].brandFolder = Null
  /\ listed[2].brandFolder = AcmeFolder
  /\ listed[1].created > listed[2].created

ListedEntries == {listed[i] : i \in 1..Len(listed)}

\* the reports written by the service and the files from outside that lie
\* in directory path and have the .txt suffix
TxtFilesIn(path) ==
  {c \in Children(files, {o \in others : ~o.isDirectory}, path) : EndsWithTxt(c.name)}

\* C20: an unfiltered listing holds, for every .txt file directly inside a
\* directory of the root, an entry with that directory as brandName and
\* brandFolder, and for every .txt file directly in the root an entry with
\* brandName 'Legacy' and brandFolder null; every entry has a name ending
\* with .txt that lies directly in the root (brandFolder null) or directly in
\* the folder it names; no entry is for a file that lies deeper.
C20_WalksOneLevel ==
  (listed # NotListed /\ listFilters = NoFilters) =>
     /\ \A d \in folders \ {RootFolder} : \A c \in TxtFilesIn(<<d>>) :
          [fileName |-> c.name, brandName |-> d, brandFolder |-> d,
           created |-> c.created] \in ListedEntries
     /\ \A c \in TxtFilesIn(<<>>) :
          [fileName |-> c.name, brandName |-> Legacy, brandFolder |-> Null,
           created |-> c.created] \in ListedEntries
     /\ \A e \in ListedEntries :
          /\ EndsWithTxt(e.fileName)
          /\ \/ e.brandFolder = Null /\ e.brandName = Legacy
                /\ \E c \in Children(files, others, <<>>) : c.name = e.fileName
             \/ e.brandFolder # Null /\ e.brandName = e.brandFolder
                /\ e.brandFolder \in folders
                /\ \E c \in Children(files, others, <<e.brandFolder>>) : c.name = e.fileName
     /\ \A o \in others : Len(o.parent) >= 2 =>
          \A e \in ListedEntries : e.fileName # o.name

\* a listing of a tree with a root report and a report one directory deeper
C20_Witness ==
  /\ listed # NotListed
  /\ listFilters = NoFilters
  /\ \E o \in others : Len(o.parent) = 2 /\ EndsWithTxt(o.name)
  /\ \E o \in others : o.parent = <<>> /\ EndsWithTxt(o.name)
  /\ \E e \in ListedEntries : e.brandName = Legacy
  /\ Len(listed) = 2

-----------------------------------------------------------------------------
(* Claims about a request with both credential headers, checked under SpecGate *)

\* the request has an Authorization header of the Bearer scheme and an
\* x-api-key header
BothHeaders(r) == IsPrefix(BearerPrefix, r.authorization) /\ r.xApiKey # <<>>

\* C30 as stated: a request with both headers of which at least one carries
\* the configured key is not answered 401.
C30_Original ==
  (AuthDone /\ BothHeaders(gateRequest) /\ CarriesKey(gateRequest)) => ~Denied

\* C30 amended: a request with both headers is authenticated exactly when
\* its Bearer credential is the configured key; its x-api-key header is not
\* looked at, so a right x-api-key next to a wrong Bearer credential is
\* answered 401 and a wrong x-api-key next to the right Bearer credential is
\* let through.
C30_BearerAloneDecides ==
  (AuthDone /\ BothHeaders(gateRequest)) =>
     (Denied <=> gateRequest.authorization # BearerPrefix \o ConfigApiKey)

\* the right Bearer credential next to a wrong x-api-key header was let through
C30_Witness ==
  /\ AuthDone
  /\ ~Denied
  /\ gateRequest.authorization = BearerPrefix \o ConfigApiKey
  /\ gateRequest.xApiKey = WrongKey

-----------------------------------------------------------------------------
(* Claims about a failing save, checked under SpecAnalyze *)

\* the file the save of the brand started last is to write
ReportOfBrand(fl) ==
  FileAt(fl, sanitizeBrandName(request.brands[idx]),
         generateFileName(request.brands[idx], RequestId(uuids), clock))

\* C26: on POST /comprehensive, a step that ends the save (the upstream
\* analysis has succeeded) without the report being in the tree makes the
\* orchestrator throw the file system's error: the request is answered by
\* the error handler with that error, and no success result, file name or
\* request identifier is returned.
C26_SaveFailureFailsAnalyze ==
  [][(/\ anPc = "handling"
      /\ phase = "saving"
      /\ request.route = "comprehensive"
      /\ phase' = "done"
      /\ ReportOfBrand(files') = {})
     => /\ thrown' = FsError
        /\ anPc' = "responded"
        /\ ~httpResponse'.success
        /\ httpResponse'.successful = <<>>
        /\ httpResponse'.error = FsError.message
        /\ results' = <<>>]_vars

\* the folder was made, the write failed, and the request was answered with
\* the file system's error
C26_Witness ==
  /\ anPc = "responded"
  /\ request.route = "comprehensive"
  /\ raised = NoError
  /\ thrown = FsError
  /\ sanitizeBrandName(request.brands[1]) \in folders
  /\ \A f \in files : f.savedFor # request.brands[1]
  /\ httpResponse.error = FsError.message
  /\ ~httpResponse.success

-----------------------------------------------------------------------------
(* Claims about reading and deleting by name, checked under SpecPaths *)

\* the entries of the listing with the file name of the request
EntriesNamed(sortedFiles, fileName) ==
  IF Len(fileName) = 1 THEN FindByName(sortedFiles, fileName[1]) ELSE <<>>

\* a file is at the place the two parameters name
FileThere(fileName, brandFolder) ==
  \E n \in Nodes(folders, files, others) :
     n.path = PathJoin(brandFolder \o fileName) /\ ~n.isDirectory

\* C21 as stated: with a brandFolder the file joined from brandFolder and
\* fileName is read; without one the content returned is that of the first
\* entry of the listing with that file name; when nothing matches the read
\* fails with a not-found error; and what getReport returns without a
\* brandFolder is the content and the listing entry of one and the same file.
C21_Original ==
  [][/\ (rdPc = "idle" /\ rdPc' # "idle") =>
          LET fileName == rdArgs'.fileName
              brandFolder == rdArgs'.brandFolder
              listing == CHOOSE q \in getFilesListIn(dirOrder, folders, files, others) : TRUE
              named == EntriesNamed(listing, fileName)
          IN /\ (brandFolder # <<>> /\ rdPc' = "read")
                  => rdContent'.path = PathJoin(brandFolder \o fileName)
             /\ (brandFolder = <<>> /\ named # <<>>)
                  => /\ rdPc' = "read"
                     /\ rdContent'.path = PathOfEntry(named[1])
                     /\ rdContent'.created = named[1].created
             /\ (IF brandFolder = <<>> THEN named = <<>> ELSE ~FileThere(fileName, brandFolder))
                  => /\ rdPc' = "thrown"
                     /\ IsNotFoundError(rdError')
     /\ (rdPc' = "returned" /\ rdArgs'.brandFolder = <<>>)
          => /\ PathOfEntry(rdInfo') = rdContent'.path
             /\ rdInfo'.created = rdContent'.created]_vars

\* C28 as stated: whatever fileName and brandFolder a request carries, a file
\* that is read or removed is one the listing reports: a .txt file in the
\* report root or in one of its immediate subdirectories, never a file
\* outside the report root.
C28_Original ==
  [][fsLog' # fsLog =>
       \E d \in getFilesList(folders, files, others) :
          PathOfEntry(d) = fsLog'[Len(fsLog')].path]_vars

-----------------------------------------------------------------------------
(* Claims about deleting and the statistics, checked under SpecStats *)

NodesNow == Nodes(folders, files, others)
NodesNext == Nodes(folders', files', others')

\* C22: a delete that goes through removes exactly one file of the tree and
\* nothing else: every other file keeps its identity and its size, no
\* directory goes, and every brand folder, the one that lost its last
\* report included, still has its entry in the brand list, with the number
\* of reports left in it.
C22_DeleteRemovesOneFile ==
  [][NodesNext # NodesNow /\ NodesNext \subseteq NodesNow =>
       /\ Cardinality(NodesNow \ NodesNext) = 1
       /\ \A n \in NodesNow \ NodesNext : ~n.isDirectory
       /\ folders' = folders
       /\ \A n \in NodesNext : n.path \in DOMAIN sizes => sizes'[n.path] = sizes[n.path]
       /\ \A d \in RootDirectories(folders, others) :
            \E b \in getBrandsList(folders', files', others', sizes') :
               /\ b.brandName = d
               /\ b.fileCount = Cardinality({f \in files' : f.brandFolder = d})
                                 + Cardinality({o \in others' : o.parent = <<d>> /\ EndsWithTxt(o.name)})]_vars

\* the folder of the second brand has lost its only report and is listed
\* with no files, while another report is still there
C22_Witness ==
  LET d == sanitizeBrandName(<<"Z", "!">>)
  IN /\ d \in folders
     /\ \A f \in files : f.brandFolder # d
     /\ files # {}
     /\ [brandName |-> d, fileCount |-> 0, totalSize |-> 0]
          \in getBrandsList(folders, files, others, sizes)

\* C23: whenever the statistics have just been returned for the tree as it
\* is, totalFiles is the number of reports of the unfiltered listing,
\* totalSize the sum of their sizes, averageSize that sum divided by the
\* number and rounded to the nearest integer (0 without files), totalBrands
\* the number of directories of the root, and the breakdown has one entry
\* per directory with the count and the size sum of that folder's reports.
C23_StatisticsMatchListing ==
  stats # NoStats =>
    LET listing == getFilesList(folders, files, others)
        dirs == RootDirectories(folders, others)
        SizeOf(entries) == SumSizes(sizes, {PathOfEntry(e) : e \in entries})
        n == Cardinality(listing)
        Of(d) == {e \in listing : e.brandFolder = d}
    IN /\ stats.totalFiles = n
       /\ stats.totalSize = SizeOf(listing)
       /\ n = 0 => stats.averageSize = 0
       /\ n > 0 => /\ 2 * n * stats.averageSize <= 2 * stats.totalSize + n
                   /\ 2 * n * stats.averageSize > 2 * stats.totalSize - n
       /\ stats.totalBrands = Cardinality(dirs)
       /\ {b.brandName : b \in stats.brandBreakdown} = dirs
       /\ Cardinality(stats.brandBreakdown) = Cardinality(dirs)
       /\ \A b \in stats.brandBreakdown :
            /\ b.fileCount = Cardinality(Of(b.brandName))
            /\ b.totalSize = SizeOf(Of(b.brandName))

\* two reports of sizes 1 and 2, one of them in the root: the average 1.5
\* is given as 2
C23_Witness ==
  /\ stats.totalFiles = 2
  /\ stats.totalSize = 3
  /\ stats.averageSize = 2
  /\ stats.totalBrands = 1

-----------------------------------------------------------------------------
(* Claims about saves that run side by side, checked under SpecSave *)

FolderOf(p) == sanitizeBrandName(savers[p].name)
Writes(p) == savers[p].pc = "write" /\ savers'[p].pc = "returned"

\* C24: no save ever throws, whatever the order of the saves' fs.access,
\* fs.mkdir and fs.writeFile calls; a save that is past createBrandFolder
\* has its brand folder in the tree, a mkdir adds nothing but that folder,
\* and a write leaves the file of the save in the folder, with its text,
\* next to every file of another name that was there.
C24_ConcurrentSavesBothSucceed ==
  [][\A p \in 1..MaxSavers :
       /\ savers'[p].pc # "thrown" /\ savers'[p].error = NoError
       /\ savers'[p].pc \in {"write", "returned"} => sanitizeBrandName(savers'[p].name) \in folders'
       /\ savers[p].pc = "mkdir" /\ savers'[p].pc # "mkdir" =>
            folders' = folders \cup {FolderOf(p)}
       /\ Writes(p) =>
            LET k == <<FolderOf(p), savers'[p].fileName>>
            IN /\ FileAt(files', k[1], k[2]) # {}
               /\ contents'[k] = p
               /\ \A f \in files : <<f.brandFolder, f.fileName>> # k => f \in files']_vars

\* both saves found the folder a missing and called fs.mkdir for it, and
\* both have written: two files are in the folder
C24_Witness ==
  /\ \A p \in 1..2 : /\ savers[p].pc = "returned" /\ savers[p].calledMkdir
                      /\ sanitizeBrandName(savers[p].name) = <<"a">>
  /\ Cardinality({f \in files : f.brandFolder = <<"a">>}) = 2

\* C25: a file of the tree keeps the text it holds from one step to the
\* next unless it is deleted or a save writes it, and a save writes a file
\* that is there only when the save that wrote it before had the same brand
\* folder, wrote in the same second and had a request id with the same
\* first segment; a save for which no file of the tree is of such a save
\* adds one file and changes no other.
C25_OverwriteOnlyOnCollision ==
  [][/\ \A f \in files :
          LET k == <<f.brandFolder, f.fileName>>
          IN \/ f \in files' /\ contents'[k] = contents[k]
             \/ FileAt(files', k[1], k[2]) = {} /\ \A p \in 1..MaxSavers : ~Writes(p)
             \/ \E p \in 1..MaxSavers :
                  /\ Writes(p)
                  /\ contents'[k] = p
                  /\ FolderOf(p) = FolderOf(contents[k])
                  /\ savers'[p].second = savers[contents[k]].second
                  /\ FirstSegment(savers[p].requestId)
                       = FirstSegment(savers[contents[k]].requestId)
     /\ \A p \in 1..MaxSavers :
          Writes(p) /\ (\A f \in files :
                          LET q == contents[<<f.brandFolder, f.fileName>>]
                          IN \/ FolderOf(q) # FolderOf(p)
                             \/ savers[q].second # clock
                             \/ FirstSegment(savers[q].requestId)
                                  # FirstSegment(savers[p].requestId))
            => files \subseteq files' /\ Cardinality(files') = Cardinality(files) + 1]_vars

\* the second save, for another brand name of the same folder, in the same
\* second and with a request id of the same first segment, has replaced the
\* text of the first save's file
C25_Witness ==
  /\ savers[1].pc = "returned" /\ savers[2].pc = "returned"
  /\ savers[1].name # savers[2].name
  /\ savers[1].fileName = savers[2].fileName
  /\ Cardinality(files) = 1
  /\ \E k \in DOMAIN contents : contents[k] = 2

\* C27: every report saved for a brand name that validation accepts is listed
\* under the folder sanitizeBrandName(brandName), which is a directory of
\* the root, and not as a 'Legacy' file of the root itself.
C27_Original ==
  \A f \in files :
    BrandNameAccepted(f.savedFor) =>
      /\ sanitizeBrandName(f.savedFor) \in RootDirectories(folders, others)
      /\ \E e \in getFilesList(folders, files, others) :
            /\ e.fileName = f.fileName
            /\ e.brandFolder = sanitizeBrandName(f.savedFor)
            /\ e.brandName # Legacy

-----------------------------------------------------------------------------
(* Claims about a listing while deletes go on, checked under SpecScan *)

\* C29: a getFilesList call never throws while reports are deleted, and
\* what it returns has every report that is still in the tree.
C29_Original ==
  /\ scan.pc # "thrown"
  /\ scan.pc = "returned" => getFilesList(folders, files, others) \subseteq scan.found

=============================================================================
